---- MODULE Spec2Model ----
(***************************************************************************)
(* Commit-tree reconstruction of the React DevTools export analyser        *)
(* (scripts/analyze-profile.mjs): the edit-record decoder                  *)
(* applyOperationsToCommitTree, the snapshot loader buildInitialCommitTree *)
(* and the per-root commit loop of analyzeReactDevtoolsExport.             *)
(*                                                                         *)
(* Numbers.  A cell of an edit record is Number(operations[k]): an integer *)
(* or a non-finite value.  NaN stands for every non-finite value (NaN      *)
(* itself, undefined read past the end of the array, a non-numeric JSON    *)
(* value); every comparison of the code is guarded by IsFinite before it   *)
(* is translated, as NaN compares false with everything in the source.     *)
(*                                                                         *)
(* Strings are sequences of code points; a null displayName is NullName.   *)
(* treeBaseDuration is kept in thousandths of a millisecond, so that the   *)
(* division durationUs / 1000 of the source is exact.                      *)
(***************************************************************************)
EXTENDS Integers, Sequences, FiniteSets, TLC

\* ---------------------------------------------------------------- bounds
MaxCommits == 2      \* commitData entries per root
MaxOps == 2          \* encoded operations decoded in one run, over all records

\* ------------------------------------------------------ program constants
ELEMENT_TYPE_ROOT == 11
TREE_OPERATION_ADD == 1
TREE_OPERATION_REMOVE == 2
TREE_OPERATION_REORDER_CHILDREN == 3
TREE_OPERATION_UPDATE_TREE_BASE_DURATION == 4
TREE_OPERATION_UPDATE_ERRORS_OR_WARNINGS == 5
TREE_OPERATION_SET_SUBTREE_MODE == 7
SUSPENSE_TREE_OPERATION_ADD == 8
SUSPENSE_TREE_OPERATION_REMOVE == 9
SUSPENSE_TREE_OPERATION_REORDER_CHILDREN == 10
SUSPENSE_TREE_OPERATION_RESIZE == 11
SUSPENSE_TREE_OPERATION_SUSPENDERS == 12
TREE_OPERATION_APPLIED_ACTIVITY_SLICE_CHANGE == 13

\* Largest code point String.fromCodePoint accepts (0x10FFFF).
MaxCodePoint == 1114111

\* ------------------------------------------------------------- numbers
\* The non-finite result of Number(x).
NaN == -1000000

IsFinite(x) == x # NaN

\* a + b of the source: NaN is absorbing.
Plus(a, b) == IF IsFinite(a) /\ IsFinite(b) THEN a + b ELSE NaN

\* Number(operations[k]) for the 0-based index k: undefined (NaN) outside
\* the array.
Cell(ops, k) ==
  IF IsFinite(k) /\ k >= 0 /\ k < Len(ops) THEN ops[k + 1] ELSE NaN

\* i < operations.length
InRecord(ops, k) == IsFinite(k) /\ k < Len(ops)

\* -------------------------------------------------------------- strings
NullName == <<NaN>>

\* array.filter((childID) => childID !== id)
RECURSIVE Without(_, _)
Without(s, id) ==
  IF s = <<>> THEN <<>>
  ELSE IF Head(s) = id THEN Without(Tail(s), id)
       ELSE <<Head(s)>> \o Without(Tail(s), id)

\* array.includes(id)
Includes(s, id) == \E k \in 1..Len(s) : s[k] = id

\* Number of occurrences of id in s.
RECURSIVE Occurrences(_, _)
Occurrences(s, id) ==
  IF s = <<>> THEN 0
  ELSE (IF Head(s) = id THEN 1 ELSE 0) + Occurrences(Tail(s), id)

\* Map.set(id, node): a new key is added, an existing one is overwritten.
Put(nodes, id, node) ==
  [k \in DOMAIN nodes \cup {id} |-> IF k = id THEN node ELSE nodes[k]]

\* Map.delete(id)
Delete(nodes, id) == [k \in DOMAIN nodes \ {id} |-> nodes[k]]

\* Map.has(id): no node is ever stored under a non-finite key.
Has(nodes, id) == IsFinite(id) /\ id \in DOMAIN nodes

EmptyNodes == [k \in {} |-> 0]

\* ------------------------------------------------------------ the tree
\* A commit tree is [rootID, nodes]; nodes maps a fiber id to
\* [parentID, children, displayName, treeBaseDuration, type].  The fields
\* key, hocDisplayNames and compiledWithForget of the source are carried
\* along by every operation and read by none of them; they are left out.
Node(parentID, children, displayName, treeBaseDuration, type) ==
  [parentID |-> parentID, children |-> children, displayName |-> displayName,
   treeBaseDuration |-> treeBaseDuration, type |-> type]

\* stringTable[k]: the decoded strings sit at 1..Len(table); stringTable[0]
\* is null and every other index is undefined.
TableName(table, k) ==
  IF IsFinite(k) /\ k >= 1 /\ k <= Len(table) THEN table[k] ELSE NullName

\* TREE_OPERATION_ADD of a root: the node is replaced by an empty root node
\* and becomes the tree's root.
AddRoot(tree, id, type) ==
  [rootID |-> id,
   nodes |-> Put(tree.nodes, id, Node(0, <<>>, NullName, 0, type))]

\* oldParent.children = oldParent.children.filter(...) for the parent the
\* existing node names, when both are present.
DetachFromOldParent(nodes, id) ==
  IF Has(nodes, id) /\ Has(nodes, nodes[id].parentID)
  THEN [nodes EXCEPT ![nodes[id].parentID].children = Without(@, id)]
  ELSE nodes

\* An Add that leaves the children list of the parent as it is.
AttachToParentSkipped(nodes, id, parentID) == nodes

\* parentNode.children = parentNode.children.concat(id) unless it is
\* already listed.
AttachToParent(nodes, id, parentID) ==
  IF Has(nodes, parentID) /\ ~Includes(nodes[parentID].children, id)
  THEN [nodes EXCEPT ![parentID].children = Append(@, id)]
  ELSE nodes

\* TREE_OPERATION_ADD of a non-root node.  existing is an object of the
\* map, so existing.children read at nodes.set is its children after the
\* detach and the attach (they write it when id is its own parent).
AddNode(tree, id, type, parentID, displayName) ==
  LET existing == Has(tree.nodes, id)
      nodes1 == DetachFromOldParent(tree.nodes, id)
      nodes2 == AttachToParent(nodes1, id, parentID)
      node == Node(IF IsFinite(parentID) THEN parentID ELSE 0,
                   IF existing THEN nodes2[id].children ELSE <<>>,
                   displayName,
                   IF existing THEN nodes2[id].treeBaseDuration ELSE 0,
                   IF IsFinite(type) THEN type
                   ELSE IF existing THEN nodes2[id].type ELSE NaN)
  IN  [tree EXCEPT !.nodes = Put(nodes2, id, node)]

\* A Remove that deletes the node and leaves it in its parent's children.
RemoveNodeKeepingLink(nodes, id) == Delete(nodes, id)

\* A Remove that deletes the children of the node with it.
RemoveNodeWithChildren(nodes, id) ==
  IF ~Has(nodes, id) THEN nodes
  ELSE LET parentID == nodes[id].parentID
           nodes1 == IF Has(nodes, parentID)
                     THEN [nodes EXCEPT ![parentID].children = Without(@, id)]
                     ELSE nodes
           kept == { n \in DOMAIN nodes1 : n # id /\ nodes1[n].parentID # id }
       IN  [n \in kept |-> nodes1[n]]

\* One id of TREE_OPERATION_REMOVE: detach it from the parent it names and
\* delete it; its children stay in the map.
RemoveNode(nodes, id) ==
  IF ~Has(nodes, id) THEN nodes
  ELSE LET parentID == nodes[id].parentID
           nodes1 == IF Has(nodes, parentID)
                     THEN [nodes EXCEPT ![parentID].children = Without(@, id)]
                     ELSE nodes
       IN  Delete(nodes1, id)

\* for (const childID of children) { childNode.parentID = id }
RECURSIVE Reparent(_, _, _)
Reparent(nodes, children, id) ==
  IF children = <<>> THEN nodes
  ELSE LET c == Head(children)
           nodes1 == IF Has(nodes, c) THEN [nodes EXCEPT ![c].parentID = id]
                     ELSE nodes
       IN  Reparent(nodes1, Tail(children), id)

\* TREE_OPERATION_REORDER_CHILDREN on a decoded child list.
ReorderChildren(nodes, id, children) ==
  IF ~Has(nodes, id) THEN nodes
  ELSE Reparent([nodes EXCEPT ![id].children = children], children, id)

\* TREE_OPERATION_UPDATE_TREE_BASE_DURATION: durationUs / 1000 ms.
UpdateTreeBaseDuration(nodes, id, durationUs) ==
  IF Has(nodes, id) /\ IsFinite(durationUs)
  THEN [nodes EXCEPT ![id].treeBaseDuration = durationUs]
  ELSE nodes

\* ---------------------------------------------------------- diagnostics
Warning(msg, code) == [msg |-> msg, code |-> code]

\* addWarningOnce: warningSet is a Set of strings.
addWarningOnce(warningSet, warning) == warningSet \cup {warning}

WarnInvalidStringTable ==
  Warning("Invalid operation string table encountered; skipping commit tree mutation.", 0)
WarnMalformedString ==
  Warning("Malformed operation string payload encountered; commit tree may be partially reconstructed.", 0)
WarnAddInvalidId ==
  Warning("Encountered TREE_OPERATION_ADD with invalid fiber id.", 0)
WarnRemoveLength ==
  Warning("Encountered TREE_OPERATION_REMOVE with invalid remove length.", 0)
WarnReorderCount ==
  Warning("Encountered TREE_OPERATION_REORDER_CHILDREN with invalid child count.", 0)
\* The message of the default case carries String(operation).
WarnUnknownOperation(operation) ==
  Warning("Encountered unknown tree operation code; commit tree reconstruction may be incomplete.", operation)

\* ------------------------------------------------------- string table
\* String.fromCodePoint(codePoint) raises a RangeError outside 0..0x10FFFF.
CodePointThrows(codePoint) == codePoint < 0 \/ codePoint > MaxCodePoint

\* decodeStringFromOperations raises: some finite cell of the run is not a
\* code point.
DecodeThrows(ops, startIndex, length) ==
  \E k \in 0..(length - 1) :
     /\ IsFinite(Cell(ops, startIndex + k))
     /\ CodePointThrows(Cell(ops, startIndex + k))

\* decodeStringFromOperations: the finite cells of the run, in order, each
\* turned into its character; "" for length <= 0.
RECURSIVE decodeStringFromOperations(_, _, _)
decodeStringFromOperations(ops, startIndex, length) ==
  IF length <= 0 THEN <<>>
  ELSE LET codePoint == Cell(ops, startIndex)
           rest == decodeStringFromOperations(ops, startIndex + 1, length - 1)
       IN  IF IsFinite(codePoint) THEN <<codePoint>> \o rest ELSE rest

\* The loop over the string table, from cursor k to stringTableEnd.
\* outcome: "ok" (table decoded), "return" (malformed run: warning, the
\* record is given up), "throw" (decodeStringFromOperations raised).
RECURSIVE StringTableLoop(_, _, _, _)
StringTableLoop(ops, k, stringTableEnd, table) ==
  IF ~(k < stringTableEnd) THEN [outcome |-> "ok", i |-> k, table |-> table]
  ELSE LET nextLength == Cell(ops, k)
           k1 == k + 1
       IN  IF ~IsFinite(nextLength) \/ nextLength < 0 \/ k1 + nextLength > Len(ops)
           THEN [outcome |-> "return", i |-> k1, table |-> table]
           ELSE IF DecodeThrows(ops, k1, nextLength)
           THEN [outcome |-> "throw", i |-> k1, table |-> table]
           ELSE StringTableLoop(ops, k1 + nextLength, stringTableEnd,
                  Append(table, decodeStringFromOperations(ops, k1, nextLength)))

Min(a, b) == IF a <= b THEN a ELSE b
Max(a, b) == IF a >= b THEN a ELSE b

\* The part of applyOperationsToCommitTree before the operation loop.
\* outcome "skip": not an array of at least 3 cells, nothing happens.
DecodeStringTable(ops, warn) ==
  IF Len(ops) < 3
  THEN [outcome |-> "skip", i |-> 2, table |-> <<>>, warningSet |-> warn]
  ELSE LET stringTableSize == Cell(ops, 2)
       IN  IF ~IsFinite(stringTableSize) \/ stringTableSize < 0
           THEN [outcome |-> "return", i |-> 3, table |-> <<>>,
                 warningSet |-> addWarningOnce(warn, WarnInvalidStringTable)]
           ELSE LET r == StringTableLoop(ops, 3, Min(Len(ops), 3 + stringTableSize), <<>>)
                IN  [outcome |-> r.outcome, i |-> r.i, table |-> r.table,
                     warningSet |-> IF r.outcome = "return"
                                    THEN addWarningOnce(warn, WarnMalformedString)
                                    ELSE warn]

\* ---------------------------------------------------- the operation loop
\* One iteration of the loop for each operation code: from the tree, the
\* warning set, the string table, the record and the cursor k to the tree,
\* the warning set and the cursor after the iteration.
Step(tree, warn, k) == [tree |-> tree, warningSet |-> warn, i |-> k]

OpAdd(tree, warn, table, ops, k) ==
  LET id == Cell(ops, k + 1)
      type == Cell(ops, k + 2)
      k1 == k + 3
  IN  IF ~IsFinite(id)
      THEN Step(tree, addWarningOnce(warn, WarnAddInvalidId), k1)
      ELSE IF type = ELEMENT_TYPE_ROOT
      THEN Step(AddRoot(tree, id, type), warn, k1 + 4)
      ELSE LET parentID == Cell(ops, k1)
               displayNameStringID == Cell(ops, k1 + 2)
           IN  Step(AddNode(tree, id, type, parentID,
                            TableName(table, displayNameStringID)),
                    warn, k1 + 5)

\* A Remove loop that ends at the first id that is absent.
RemoveLoopEndingAtAbsent(nodes, ops, k, remaining) ==
  IF remaining <= 0 \/ ~InRecord(ops, k) \/ ~Has(nodes, Cell(ops, k))
  THEN [nodes |-> nodes, i |-> k]
  ELSE [nodes |-> Delete(nodes, Cell(ops, k)), i |-> k + 1]

\* for (removeIndex < removeLength && i < operations.length)
RECURSIVE RemoveLoop(_, _, _, _)
RemoveLoop(nodes, ops, k, remaining) ==
  IF remaining <= 0 \/ ~InRecord(ops, k) THEN [nodes |-> nodes, i |-> k]
  ELSE RemoveLoop(RemoveNode(nodes, Cell(ops, k)), ops, k + 1, remaining - 1)

OpRemove(tree, warn, table, ops, k) ==
  LET removeLength == Cell(ops, k + 1)
      k1 == k + 2
  IN  IF ~IsFinite(removeLength) \/ removeLength < 0
      THEN Step(tree, addWarningOnce(warn, WarnRemoveLength), k1)
      ELSE LET r == RemoveLoop(tree.nodes, ops, k1, removeLength)
           IN  Step([tree EXCEPT !.nodes = r.nodes], warn, r.i)

\* for (childIndex < numChildren && i < operations.length): the finite
\* cells are collected.
RECURSIVE ReadChildren(_, _, _)
ReadChildren(ops, k, remaining) ==
  IF remaining <= 0 \/ ~InRecord(ops, k) THEN [children |-> <<>>, i |-> k]
  ELSE LET r == ReadChildren(ops, k + 1, remaining - 1)
           childID == Cell(ops, k)
       IN  [children |-> IF IsFinite(childID) THEN <<childID>> \o r.children
                         ELSE r.children,
            i |-> r.i]

OpReorder(tree, warn, table, ops, k) ==
  LET id == Cell(ops, k + 1)
      numChildren == Cell(ops, k + 2)
      k1 == k + 3
  IN  IF ~IsFinite(numChildren) \/ numChildren < 0
      THEN Step(tree, addWarningOnce(warn, WarnReorderCount), k1)
      ELSE LET r == ReadChildren(ops, k1, numChildren)
           IN  Step([tree EXCEPT !.nodes = ReorderChildren(@, id, r.children)],
                    warn, r.i)

OpUpdateTreeBaseDuration(tree, warn, table, ops, k) ==
  Step([tree EXCEPT !.nodes =
          UpdateTreeBaseDuration(@, Cell(ops, k + 1), Cell(ops, k + 2))],
       warn, k + 3)

OpSetSubtreeMode(tree, warn, table, ops, k) == Step(tree, warn, k + 3)

OpUpdateErrorsOrWarnings(tree, warn, table, ops, k) == Step(tree, warn, k + 4)

\* numRects === -1 ? 0 : Math.max(0, numRects) * 4; Math.max(0, NaN) is NaN.
RectCells(numRects) ==
  IF numRects = -1 THEN 0
  ELSE IF ~IsFinite(numRects) THEN NaN
  ELSE Max(0, numRects) * 4

UnsafeLength(n) == IF IsFinite(n) THEN n ELSE 0

\* Number.isFinite(n) && n > 0 ? n : 0
SafeLength(n) == IF IsFinite(n) /\ n > 0 THEN n ELSE 0

OpSuspenseAdd(tree, warn, table, ops, k) ==
  Step(tree, warn, Plus(k + 6, RectCells(Cell(ops, k + 5))))

OpSuspenseRemove(tree, warn, table, ops, k) ==
  Step(tree, warn, k + 2 + SafeLength(Cell(ops, k + 1)))

OpSuspenseReorderChildren(tree, warn, table, ops, k) ==
  Step(tree, warn, k + 3 + SafeLength(Cell(ops, k + 2)))

\* A resize that takes a rectangle for one cell.
OpSuspenseResizeNarrowRects(tree, warn, table, ops, k) ==
  Step(tree, warn, Plus(k + 3, SafeLength(Cell(ops, k + 2))))

OpSuspenseResize(tree, warn, table, ops, k) ==
  Step(tree, warn, Plus(k + 3, RectCells(Cell(ops, k + 2))))

\* for (changeIndex < safeChangeLength && i < operations.length)
RECURSIVE SuspendersLoop(_, _, _)
SuspendersLoop(ops, k, remaining) ==
  IF remaining <= 0 \/ ~InRecord(ops, k) THEN k
  ELSE SuspendersLoop(ops, k + 5 + SafeLength(Cell(ops, k + 4)), remaining - 1)

OpSuspenseSuspenders(tree, warn, table, ops, k) ==
  Step(tree, warn, SuspendersLoop(ops, k + 2, SafeLength(Cell(ops, k + 1))))

OpAppliedActivitySliceChange(tree, warn, table, ops, k) == Step(tree, warn, k + 2)

\* A default case that skips two cells.
OpUnknownSkippingTwo(tree, warn, table, ops, k) ==
  Step(tree, addWarningOnce(warn, WarnUnknownOperation(Cell(ops, k))), k + 2)

\* The default case of the switch.
OpUnknown(tree, warn, table, ops, k) ==
  Step(tree, addWarningOnce(warn, WarnUnknownOperation(Cell(ops, k))), k + 1)

KnownOperations ==
  {TREE_OPERATION_ADD, TREE_OPERATION_REMOVE, TREE_OPERATION_REORDER_CHILDREN,
   TREE_OPERATION_UPDATE_TREE_BASE_DURATION, TREE_OPERATION_UPDATE_ERRORS_OR_WARNINGS,
   TREE_OPERATION_SET_SUBTREE_MODE, SUSPENSE_TREE_OPERATION_ADD,
   SUSPENSE_TREE_OPERATION_REMOVE, SUSPENSE_TREE_OPERATION_REORDER_CHILDREN,
   SUSPENSE_TREE_OPERATION_RESIZE, SUSPENSE_TREE_OPERATION_SUSPENDERS,
   TREE_OPERATION_APPLIED_ACTIVITY_SLICE_CHANGE}

\* switch (operation): the iteration the loop makes at cursor k.
Switch(tree, warn, table, ops, k) ==
  LET operation == Cell(ops, k)
  IN  CASE operation = TREE_OPERATION_ADD -> OpAdd(tree, warn, table, ops, k)
        [] operation = TREE_OPERATION_REMOVE -> OpRemove(tree, warn, table, ops, k)
        [] operation = TREE_OPERATION_REORDER_CHILDREN -> OpReorder(tree, warn, table, ops, k)
        [] operation = TREE_OPERATION_UPDATE_TREE_BASE_DURATION ->
             OpUpdateTreeBaseDuration(tree, warn, table, ops, k)
        [] operation = TREE_OPERATION_UPDATE_ERRORS_OR_WARNINGS ->
             OpUpdateErrorsOrWarnings(tree, warn, table, ops, k)
        [] operation = TREE_OPERATION_SET_SUBTREE_MODE -> OpSetSubtreeMode(tree, warn, table, ops, k)
        [] operation = SUSPENSE_TREE_OPERATION_ADD -> OpSuspenseAdd(tree, warn, table, ops, k)
        [] operation = SUSPENSE_TREE_OPERATION_REMOVE -> OpSuspenseRemove(tree, warn, table, ops, k)
        [] operation = SUSPENSE_TREE_OPERATION_REORDER_CHILDREN ->
             OpSuspenseReorderChildren(tree, warn, table, ops, k)
        [] operation = SUSPENSE_TREE_OPERATION_RESIZE -> OpSuspenseResize(tree, warn, table, ops, k)
        [] operation = SUSPENSE_TREE_OPERATION_SUSPENDERS ->
             OpSuspenseSuspenders(tree, warn, table, ops, k)
        [] operation = TREE_OPERATION_APPLIED_ACTIVITY_SLICE_CHANGE ->
             OpAppliedActivitySliceChange(tree, warn, table, ops, k)
        [] OTHER -> OpUnknown(tree, warn, table, ops, k)

\* ----------------------------------------------------------- snapshots
\* A root of the export: rootID and the snapshot entries in their order,
\* each [id, children, displayName, type, treeBaseDuration] (entry ids are
\* distinct, as the keys of the exported map are).
SnapshotEntry(id, children, displayName, type) ==
  [id |-> id, children |-> children, displayName |-> displayName,
   type |-> type, treeBaseDuration |-> 0]

\* First loop of buildInitialCommitTree: every entry becomes a node with
\* parentID 0.
RECURSIVE SnapshotNodes(_)
SnapshotNodes(entries) ==
  IF entries = <<>> THEN EmptyNodes
  ELSE LET e == entries[Len(entries)]
       IN  Put(SnapshotNodes(SubSeq(entries, 1, Len(entries) - 1)), e.id,
               Node(0, e.children, e.displayName, e.treeBaseDuration, e.type))

\* Second loop: in map order, every listed child that is present gets the
\* listing node as its parentID.
RECURSIVE LinkParents(_, _)
LinkParents(nodes, entries) ==
  IF entries = <<>> THEN nodes
  ELSE LinkParents(Reparent(nodes, Head(entries).children, Head(entries).id),
                   Tail(entries))

\* [...nodes.values()].find(pred)?.id over the map order, for the nodes
\* whose id is in matching; NaN when none.
RECURSIVE FirstId(_, _)
FirstId(entries, matching) ==
  IF entries = <<>> THEN NaN
  ELSE IF Head(entries).id \in matching THEN Head(entries).id
  ELSE FirstId(Tail(entries), matching)

buildInitialCommitTree(root) ==
  LET nodes == LinkParents(SnapshotNodes(root.snapshots), root.snapshots)
      rootLike == FirstId(root.snapshots,
                    {k \in DOMAIN nodes : nodes[k].type = ELEMENT_TYPE_ROOT})
      orphan == FirstId(root.snapshots,
                    {k \in DOMAIN nodes : nodes[k].parentID = 0})
      rootID1 == IF Has(nodes, root.rootID) THEN root.rootID
                 ELSE IF IsFinite(rootLike) THEN rootLike ELSE orphan
      rootID2 == IF ~IsFinite(rootID1) /\ root.snapshots # <<>>
                 THEN Head(root.snapshots).id ELSE rootID1
  IN  [rootID |-> IF IsFinite(rootID2) THEN rootID2 ELSE 0, nodes |-> nodes]

\* -------------------------------------------------------------- inputs
\* ElementTypeFunction of the DevTools wire format, the type of the
\* ordinary nodes the inputs add.
FunctionType == 5

NameA == <<65>>
NameB == <<66>>

\* The roots the analysis is run on: no snapshot, a root with two children,
\* and a chain.
Roots ==
  { [rootID |-> 1, snapshots |-> <<>>],
    [rootID |-> 1,
     snapshots |-> << SnapshotEntry(1, <<2, 3>>, NullName, ELEMENT_TYPE_ROOT),
                      SnapshotEntry(2, <<>>, NameA, FunctionType),
                      SnapshotEntry(3, <<>>, NameB, FunctionType) >>],
    [rootID |-> 1,
     snapshots |-> << SnapshotEntry(1, <<2>>, NullName, ELEMENT_TYPE_ROOT),
                      SnapshotEntry(2, <<3>>, NameA, FunctionType),
                      SnapshotEntry(3, <<>>, NameB, FunctionType) >>] }

\* The first cells of a record: rendererID, rootID, then the string table.
\* A record that goes on after its string table (the table lies wholly
\* inside the record):
OpenHeaders ==
  { <<1, 1, 2, 1, 65>> }         \* one string, "A"

\* A record that is these cells and nothing more:
ClosedHeaders ==
  { <<>>, <<1, 1>>,              \* fewer than 3 cells
    <<1, 1, 0>>,                 \* empty table, no operation
    <<1, 1, NaN>>,               \* table size is not a number
    <<1, 1, -1>>,                \* negative table size
    <<1, 1, 2, 3, 65>>,          \* string run longer than the record
    <<1, 1, 2, -1, 65>>,         \* negative string length
    <<1, 1, 2, 1, NaN>>,         \* a code point that is not a number
    <<1, 1, 2, 1, -1>>,          \* code point below 0
    <<1, 1, 2, 1, MaxCodePoint + 1>> }   \* code point above 0x10FFFF

\* Encoded operations, each complete: the decoder started on the first
\* cell consumes exactly these cells.
AddRootOps == { <<TREE_OPERATION_ADD, 1, ELEMENT_TYPE_ROOT, 0, 0, 0, 0>> }

AddOps ==
  { <<TREE_OPERATION_ADD, id, FunctionType, parentID, 0, 1, 0, 0>> :
      id \in {2, 3}, parentID \in {1, 2} }

RemoveOps ==
  { <<TREE_OPERATION_REMOVE, 1, id>> : id \in {2, 3} }
    \cup { <<TREE_OPERATION_REMOVE, 2, 2, 3>> }

ReorderOps ==
  { <<TREE_OPERATION_REORDER_CHILDREN, 1, 2, 3, 2>>,
    <<TREE_OPERATION_REORDER_CHILDREN, 2, 1, 3>> }

UpdateOps ==
  { <<TREE_OPERATION_UPDATE_TREE_BASE_DURATION, 2, 1500>> }

\* Operations with a length field that is not a length.
InvalidOps ==
  { <<TREE_OPERATION_ADD, NaN, FunctionType>>,
    <<TREE_OPERATION_REMOVE, -1>>,
    <<TREE_OPERATION_REORDER_CHILDREN, 1, -1>> }

\* The operation kinds the decoder recognises and skips, laid out as the
\* DevTools backend writes them.
IgnoredOps ==
  { <<TREE_OPERATION_UPDATE_ERRORS_OR_WARNINGS, 2, 0, 1>>,
    <<TREE_OPERATION_SET_SUBTREE_MODE, 1, 1>>,
    <<SUSPENSE_TREE_OPERATION_ADD, 2, 1, 0, 0, -1>>,
    <<SUSPENSE_TREE_OPERATION_ADD, 2, 1, 0, 0, 1, 0, 0, 9, 9>>,
    <<SUSPENSE_TREE_OPERATION_REMOVE, 2, 2, 3>>,
    <<SUSPENSE_TREE_OPERATION_REORDER_CHILDREN, 1, 2, 3, 2>>,
    <<SUSPENSE_TREE_OPERATION_RESIZE, 2, 1, 0, 0, 9, 9>>,
    <<SUSPENSE_TREE_OPERATION_RESIZE, 2, -1>>,
    <<SUSPENSE_TREE_OPERATION_SUSPENDERS, 2, 2, 1, 0, 0, 1, 1, 3, 0, 0, 1, 0>>,
    <<SUSPENSE_TREE_OPERATION_SUSPENDERS, 0>>,
    <<TREE_OPERATION_APPLIED_ACTIVITY_SLICE_CHANGE, 2>> }

\* Operation codes the decoder does not know.
UnknownOps == { <<6>>, <<14>> }

CompleteOps ==
  AddRootOps \cup AddOps \cup RemoveOps \cup ReorderOps \cup UpdateOps
    \cup InvalidOps \cup IgnoredOps \cup UnknownOps

\* Operations cut short by the end of the record: the record ends with
\* their last cell.
TruncatedOps ==
  { <<TREE_OPERATION_ADD, 3>>,
    <<TREE_OPERATION_ADD, 2, FunctionType, 1>>,
    <<TREE_OPERATION_REMOVE, 2, 3>>,
    <<TREE_OPERATION_REORDER_CHILDREN, 1, 2, 3>>,
    <<TREE_OPERATION_UPDATE_TREE_BASE_DURATION, 2>>,
    <<SUSPENSE_TREE_OPERATION_ADD, 2, 1>>,
    <<SUSPENSE_TREE_OPERATION_REMOVE, 3, 2>>,
    <<SUSPENSE_TREE_OPERATION_SUSPENDERS, 2, 2, 1, 0>> }

\* --------------------------------------------------------------- state
\* The record of the commit being replayed is consumed left to right and
\* no cell is read twice, so the model holds it one encoded operation at a
\* time: operations is the part of the record from the operation being
\* decoded on, as far as it has been supplied, and the cursor i counts from
\* its first cell (the source's cursor is i plus the number of cells of the
\* operations decoded before).  final says that the record ends with the
\* last cell of operations.
VARIABLES
  commitTree,     \* [rootID, nodes] of the root being analysed
  warningSet,     \* shared by all commits of all roots
  commitIndex,    \* index of the commitData entry being processed
  pc,             \* "commit", "decode", "analyse", "fault", "report"
  operations,     \* the record being decoded (see above)
  final,
  i,              \* cursor into operations
  stringTable,    \* decoded strings of the record, stringTable[1..]
  opCount,        \* operations supplied to the decoder so far
  applied,        \* history: indexes of the records replayed on commitTree
  withRecord,     \* history: indexes up to commitIndex that hold a record
  unknownSeen     \* history: the unknown operation codes met, in order

vars == <<commitTree, warningSet, commitIndex, pc, operations, final, i,
          stringTable, opCount, applied, withRecord, unknownSeen>>

recordVars == <<operations, final, i, stringTable>>
historyVars == <<applied, withRecord, unknownSeen>>

\* The state of one call of buildCommitFlamegraph (see the flamegraph
\* section); the replay leaves it idle.
VARIABLES
  args,           \* the arguments of the call besides commitTree
  phase,          \* "idle", or the part of the function that runs next
  included,       \* [rootFiberId, includedFiberIDs]
  links,          \* [parentByFiberID, childrenByFiberID]
  depthByFiberID,
  computedSubtreeMsByFiberID,
  stack,          \* the activations of computeSubtreeMs, innermost last
  flamegraph      \* the value returned

flameVars == <<args, phase, included, links, depthByFiberID,
               computedSubtreeMsByFiberID, stack, flamegraph>>

\* The state of the render-cause classifier: the change record it was last
\* called with and what it returned.
VARIABLES changeDescription, summary

summaryVars == <<changeDescription, summary>>

\* The aggregation of the rendered samples of all commits into hotspots.
VARIABLES
  samples,        \* the rendered components aggregated so far, in order
  hotspotMap,     \* the aggregates, in the insertion order of their names
  counters,       \* the render-reason counters of the report
  report          \* what the report says of them, once it is built

hotspotVars == <<samples, hotspotMap, counters, report>>

\* The cadence detector: its argument and what it returned.
VARIABLES timestampsMs, cadence

cadenceVars == <<timestampsMs, cadence>>

\* The duration of a commit: the commit record and the duration reported.
VARIABLES commit, durationMs

durationVars == <<commit, durationMs>>

\* The comparator: the two reports and the comparison it returned.
VARIABLES beforeReport, afterReport, comparison

\* The comparator of summaries: the two summaries and what it returned.
VARIABLES beforeSummary, afterSummary, summaryDiff

compareVars ==
  <<beforeReport, afterReport, comparison, beforeSummary, afterSummary, summaryDiff>>

\* The analysis of an export, pass by pass: the counters of the analyzer,
\* the members of its warning Set in insertion order, and its report.
VARIABLES tally, warningSeen, analysis

analysisVars == <<tally, warningSeen, analysis>>

\* The recorder of one root: its live tree, the flag and the maps of
\* recordReactDevToolsProfile, every record the bridge delivered with the
\* flag it met, the live tree when profiling was stopped and the tree the
\* analyzer rebuilds from the export.
VARIABLES liveTreesByRoot, profilingActive, snapshotsByRoot,
          operationsDuringProfilingByRoot, arrivals, liveAtStop, recorderPc, rebuilt

recorderVars == <<liveTreesByRoot, profilingActive, snapshotsByRoot,
                  operationsDuringProfilingByRoot, arrivals, liveAtStop, recorderPc,
                  rebuilt>>

\* One call of runWithConcurrency: its locals, the position of each worker
\* and the items handed to the worker function so far.
VARIABLES concurrency, safeItems, workerCount, nextIndex, workers, handed, poolPc

poolVars == <<concurrency, safeItems, workerCount, nextIndex, workers, handed, poolPc>>

\* The waiters of a BridgeController: this._waiters, the armed timers, the
\* state of each promise and the calls of resolve and reject made on it.
VARIABLES waiters, timers, promises, settlements

bridgeVars == <<waiters, timers, promises, settlements>>

\* runtimeURLToMetadataCache as the list of its keys in insertion order,
\* and the calls of setWithLruLimit made on it.
VARIABLES cache, inserted

cacheVars == <<cache, inserted>>

toolVars == <<analysisVars, recorderVars, poolVars, bridgeVars, cacheVars>>

reportVars == <<hotspotVars, cadenceVars, durationVars, compareVars, toolVars>>
otherVars == <<flameVars, summaryVars, reportVars>>

\* The values of the fields of a change record, with their JavaScript type.
Undefined == [type |-> "undefined"]
Boolean(value) == [type |-> "boolean", value |-> value]
Array(items) == [type |-> "array", items |-> items]
Object(fields) == [type |-> "object", fields |-> fields]

SummaryIdle == changeDescription = Undefined /\ summary = ""

ZeroCounters ==
  [componentRenderSamples |-> 0,
   knownRenderReasonSamples |-> 0,
   unknownRenderReasonSamples |-> 0,
   unknownRenderReasonUpdaterMatches |-> 0]

NoReport == [built |-> FALSE]

HotspotIdle ==
  samples = <<>> /\ hotspotMap = <<>> /\ counters = ZeroCounters /\ report = NoReport

CadenceIdle == timestampsMs = <<>> /\ cadence = <<>>
DurationIdle == commit = <<>> /\ durationMs = 0
CompareIdle ==
  /\ beforeReport = <<>> /\ afterReport = <<>> /\ comparison = <<>>
  /\ beforeSummary = <<>> /\ afterSummary = <<>> /\ summaryDiff = <<>>

ZeroTally ==
  [commitCount |-> 0,
   commitDurationsMs |-> <<>>,
   renderedNodeCount |-> 0,
   componentRenderSamples |-> 0,
   unnamedFiberRenders |-> 0,
   commitsWithRenderReasons |-> 0,
   commitsWithoutRenderReasons |-> 0,
   knownRenderReasonSamples |-> 0,
   unknownRenderReasonSamples |-> 0,
   unknownRenderReasonUpdaterMatches |-> 0,
   hotspotTotalMs |-> 0,
   hotspotCounts |-> <<>>]

AnalysisIdle == tally = ZeroTally /\ warningSeen = <<>> /\ analysis = NoReport

RecorderIdle ==
  /\ liveTreesByRoot = <<>>
  /\ profilingActive = FALSE
  /\ snapshotsByRoot = <<>>
  /\ operationsDuringProfilingByRoot = <<>>
  /\ arrivals = <<>>
  /\ liveAtStop = <<>>
  /\ recorderPc = "page"
  /\ rebuilt = <<>>

PoolIdle ==
  /\ concurrency = 0
  /\ safeItems = <<>>
  /\ workerCount = 0
  /\ nextIndex = 0
  /\ workers = <<>>
  /\ handed = <<>>
  /\ poolPc = "idle"

BridgeIdle ==
  /\ waiters = <<>>
  /\ timers = {}
  /\ promises = <<>>
  /\ settlements = <<>>

CacheIdle == cache = <<>> /\ inserted = <<>>

ToolIdle == AnalysisIdle /\ RecorderIdle /\ PoolIdle /\ BridgeIdle /\ CacheIdle

ReportIdle == HotspotIdle /\ CadenceIdle /\ DurationIdle /\ CompareIdle /\ ToolIdle

FlameIdle ==
  /\ args = <<>>
  /\ phase = "idle"
  /\ included = <<>>
  /\ links = <<>>
  /\ depthByFiberID = <<>>
  /\ computedSubtreeMsByFiberID = <<>>
  /\ stack = <<>>
  /\ flamegraph = <<>>

Init ==
  /\ \E root \in Roots : commitTree = buildInitialCommitTree(root)
  /\ warningSet = {}
  /\ commitIndex = 0
  /\ pc = "commit"
  /\ operations = <<>>
  /\ final = TRUE
  /\ i = 0
  /\ stringTable = <<>>
  /\ opCount = 0
  /\ applied = <<>>
  /\ withRecord = {}
  /\ unknownSeen = <<>>
  /\ FlameIdle
  /\ SummaryIdle
  /\ ReportIdle

\* --------------------------------------------------------- commit loop
\* for (const root of roots): the next root starts from its own snapshot;
\* the warning set is kept.
NextRoot ==
  /\ pc = "commit"
  /\ \E root \in Roots : commitTree' = buildInitialCommitTree(root)
  /\ commitIndex' = 0
  /\ applied' = <<>>
  /\ withRecord' = {}
  /\ UNCHANGED <<otherVars, warningSet, pc, recordVars, opCount, unknownSeen>>

\* A commitData entry that is not an object (line 1716), with an edit
\* record at the same index: nothing of the loop body runs, the replay of
\* the record included.
SkipCommit ==
  /\ pc = "commit"
  /\ commitIndex < MaxCommits
  /\ withRecord' = withRecord \cup {commitIndex}
  /\ commitIndex' = commitIndex + 1
  /\ UNCHANGED <<otherVars, commitTree, warningSet, pc, recordVars, opCount, applied,
                 unknownSeen>>

\* A commit whose operations entry is not an array: no replay, the pass is
\* analysed on the tree as it is.
BeginCommitWithoutRecord ==
  /\ pc = "commit"
  /\ commitIndex < MaxCommits
  /\ pc' = "analyse"
  /\ UNCHANGED <<otherVars, commitTree, warningSet, commitIndex, recordVars, opCount,
                 historyVars>>

\* A commit with a record: applyOperationsToCommitTree up to the operation
\* loop (lines 500-527).
BeginCommit ==
  /\ pc = "commit"
  /\ commitIndex < MaxCommits
  /\ \E closed \in BOOLEAN :
     \E header \in (IF closed THEN ClosedHeaders ELSE OpenHeaders) :
       LET r == DecodeStringTable(header, warningSet)
       IN  /\ operations' = header
           /\ final' = closed
           /\ warningSet' = r.warningSet
           /\ stringTable' = r.table
           /\ i' = r.i
           /\ pc' = CASE r.outcome = "ok" -> "decode"
                      [] r.outcome = "throw" -> "fault"
                      [] OTHER -> "analyse"
  /\ applied' = Append(applied, commitIndex)
  /\ withRecord' = withRecord \cup {commitIndex}
  /\ UNCHANGED <<otherVars, commitTree, commitIndex, opCount, unknownSeen>>

\* The record goes on with one more encoded operation.
NextOperation ==
  /\ pc = "decode"
  /\ ~final
  /\ i = Len(operations)
  /\ opCount < MaxOps
  /\ \E truncated \in BOOLEAN :
     \E op \in (IF truncated THEN TruncatedOps ELSE CompleteOps) :
       /\ operations' = op
       /\ final' = truncated
  /\ i' = 0
  /\ opCount' = opCount + 1
  /\ UNCHANGED <<otherVars, commitTree, warningSet, commitIndex, pc, stringTable,
                 historyVars>>

\* while (i < operations.length) fails: applyOperationsToCommitTree returns.
EndRecord ==
  /\ pc = "decode"
  /\ ~InRecord(operations, i)
  /\ pc' = "analyse"
  /\ UNCHANGED <<otherVars, commitTree, warningSet, commitIndex, recordVars, opCount,
                 historyVars>>

\* The rest of the loop body (lines 1721-1866) reads the tree and leaves
\* it alone; the next iteration follows.
AnalyseCommit ==
  /\ pc = "analyse"
  /\ pc' = "commit"
  /\ commitIndex' = commitIndex + 1
  /\ operations' = <<>>
  /\ final' = TRUE
  /\ i' = 0
  /\ stringTable' = <<>>
  /\ UNCHANGED <<otherVars, commitTree, warningSet, opCount, historyVars>>

\* Both loops are over: the report is built, its warnings ending with the
\* members of warningSet (line 2034).
ProduceReport ==
  /\ pc = "commit"
  /\ pc' = "report"
  /\ UNCHANGED <<otherVars, commitTree, warningSet, commitIndex, recordVars, opCount,
                 historyVars>>

\* ------------------------------------------------------ operation loop
\* const operation = Number(operations[i]) of an iteration the loop enters.
AtOperation == pc = "decode" /\ InRecord(operations, i)
Operation == Cell(operations, i)

\* One iteration of the loop, taken by case Op of the switch.
Iterate(Op(_, _, _, _, _)) ==
  LET r == Op(commitTree, warningSet, stringTable, operations, i)
  IN  /\ commitTree' = r.tree
      /\ warningSet' = r.warningSet
      /\ i' = r.i
      /\ UNCHANGED <<otherVars, commitIndex, pc, operations, final, stringTable,
                     opCount, applied, withRecord>>

DecodeAdd ==
  /\ AtOperation
  /\ Operation = TREE_OPERATION_ADD
  /\ Iterate(OpAdd)
  /\ UNCHANGED unknownSeen

DecodeRemove ==
  /\ AtOperation
  /\ Operation = TREE_OPERATION_REMOVE
  /\ Iterate(OpRemove)
  /\ UNCHANGED unknownSeen

DecodeReorderChildren ==
  /\ AtOperation
  /\ Operation = TREE_OPERATION_REORDER_CHILDREN
  /\ Iterate(OpReorder)
  /\ UNCHANGED unknownSeen

DecodeUpdateTreeBaseDuration ==
  /\ AtOperation
  /\ Operation = TREE_OPERATION_UPDATE_TREE_BASE_DURATION
  /\ Iterate(OpUpdateTreeBaseDuration)
  /\ UNCHANGED unknownSeen

DecodeUpdateErrorsOrWarnings ==
  /\ AtOperation
  /\ Operation = TREE_OPERATION_UPDATE_ERRORS_OR_WARNINGS
  /\ Iterate(OpUpdateErrorsOrWarnings)
  /\ UNCHANGED unknownSeen

DecodeSetSubtreeMode ==
  /\ AtOperation
  /\ Operation = TREE_OPERATION_SET_SUBTREE_MODE
  /\ Iterate(OpSetSubtreeMode)
  /\ UNCHANGED unknownSeen

DecodeSuspenseAdd ==
  /\ AtOperation
  /\ Operation = SUSPENSE_TREE_OPERATION_ADD
  /\ Iterate(OpSuspenseAdd)
  /\ UNCHANGED unknownSeen

DecodeSuspenseRemove ==
  /\ AtOperation
  /\ Operation = SUSPENSE_TREE_OPERATION_REMOVE
  /\ Iterate(OpSuspenseRemove)
  /\ UNCHANGED unknownSeen

DecodeSuspenseReorderChildren ==
  /\ AtOperation
  /\ Operation = SUSPENSE_TREE_OPERATION_REORDER_CHILDREN
  /\ Iterate(OpSuspenseReorderChildren)
  /\ UNCHANGED unknownSeen

DecodeSuspenseResize ==
  /\ AtOperation
  /\ Operation = SUSPENSE_TREE_OPERATION_RESIZE
  /\ Iterate(OpSuspenseResize)
  /\ UNCHANGED unknownSeen

DecodeSuspenseSuspenders ==
  /\ AtOperation
  /\ Operation = SUSPENSE_TREE_OPERATION_SUSPENDERS
  /\ Iterate(OpSuspenseSuspenders)
  /\ UNCHANGED unknownSeen

DecodeAppliedActivitySliceChange ==
  /\ AtOperation
  /\ Operation = TREE_OPERATION_APPLIED_ACTIVITY_SLICE_CHANGE
  /\ Iterate(OpAppliedActivitySliceChange)
  /\ UNCHANGED unknownSeen

DecodeUnknown ==
  /\ AtOperation
  /\ Operation \notin KnownOperations
  /\ Iterate(OpUnknown)
  /\ unknownSeen' = Append(unknownSeen, Operation)

DecodeIgnored ==
  \/ DecodeUpdateErrorsOrWarnings
  \/ DecodeSetSubtreeMode
  \/ DecodeSuspenseAdd
  \/ DecodeSuspenseRemove
  \/ DecodeSuspenseReorderChildren
  \/ DecodeSuspenseResize
  \/ DecodeSuspenseSuspenders
  \/ DecodeAppliedActivitySliceChange

Decode ==
  \/ DecodeAdd
  \/ DecodeRemove
  \/ DecodeReorderChildren
  \/ DecodeUpdateTreeBaseDuration
  \/ DecodeIgnored
  \/ DecodeUnknown

Next ==
  \/ NextRoot
  \/ SkipCommit
  \/ BeginCommitWithoutRecord
  \/ BeginCommit
  \/ NextOperation
  \/ Decode
  \/ EndRecord
  \/ AnalyseCommit
  \/ ProduceReport

Spec == Init /\ [][Next]_vars

\* =================================================================
\* Properties
\* =================================================================

\* The node reached from id by `steps` parentID links; NaN once a link
\* leaves the map.
RECURSIVE Ancestor(_, _, _)
Ancestor(nodes, id, steps) ==
  IF ~Has(nodes, id) THEN NaN
  ELSE IF steps = 0 THEN id
  ELSE Ancestor(nodes, nodes[id].parentID, steps - 1)

Acyclic(nodes) ==
  \A id \in DOMAIN nodes :
    \A steps \in 1..Cardinality(DOMAIN nodes) : Ancestor(nodes, id, steps) # id

\* The tree invariant of the data model.
TreeConsistent(tree) ==
  /\ \A id \in DOMAIN tree.nodes :
       id # tree.rootID =>
         /\ Has(tree.nodes, tree.nodes[id].parentID)
         /\ Includes(tree.nodes[tree.nodes[id].parentID].children, id)
  /\ Acyclic(tree.nodes)

\* The ids a Remove or the children a Reorder lists, for a payload of
\* `count` cells from cell k on.
PayloadCells(ops, k, count) == [n \in 1..count |-> Cell(ops, k + n - 1)]
PayloadSet(ops, k, count) == {Cell(ops, k + n - 1) : n \in 1..count}

SameElements(s, t) ==
  /\ Len(s) = Len(t)
  /\ \A x \in {s[n] : n \in 1..Len(s)} \cup {t[n] : n \in 1..Len(t)} :
       Occurrences(s, x) = Occurrences(t, x)

\* The operation at the cursor is one a DevTools backend writes for the
\* tree as it is: an Add of a new id under a present parent (or of the root
\* into an empty tree), a Remove that lists every child of a node it lists,
\* a Reorder that permutes the children of a present node; each with its
\* whole payload in the record.
WellFormedOperation ==
  LET nodes == commitTree.nodes
      count == Cell(operations, i + 1)
      reorderCount == Cell(operations, i + 2)
  IN  CASE Operation = TREE_OPERATION_ADD ->
             /\ IsFinite(Cell(operations, i + 1))
             /\ ~Has(nodes, Cell(operations, i + 1))
             /\ IF Cell(operations, i + 2) = ELEMENT_TYPE_ROOT
                THEN i + 7 <= Len(operations) /\ DOMAIN nodes = {}
                ELSE i + 8 <= Len(operations) /\ Has(nodes, Cell(operations, i + 3))
        [] Operation = TREE_OPERATION_REMOVE ->
             /\ IsFinite(count) /\ count >= 0 /\ i + 2 + count <= Len(operations)
             /\ \A n \in DOMAIN nodes :
                  nodes[n].parentID \in PayloadSet(operations, i + 2, count)
                    => n \in PayloadSet(operations, i + 2, count)
        [] Operation = TREE_OPERATION_REORDER_CHILDREN ->
             /\ IsFinite(reorderCount) /\ reorderCount >= 0
             /\ i + 3 + reorderCount <= Len(operations)
             /\ Has(nodes, Cell(operations, i + 1))
             /\ SameElements(PayloadCells(operations, i + 3, reorderCount),
                             nodes[Cell(operations, i + 1)].children)
             /\ \A c \in PayloadSet(operations, i + 3, reorderCount) :
                  Has(nodes, c) /\ nodes[c].parentID = Cell(operations, i + 1)
        [] OTHER -> TRUE

\* C1 (as stated): in every reachable tree state every non-root node's
\* parentID names a present node whose children list contains it, and the
\* parent relation has no cycle.
C1_TreeInvariantAlways == TreeConsistent(commitTree)

\* C1 (amended): the tree built from a snapshot satisfies the invariant, and
\* every step keeps it when the operation it decodes is well formed for
\* the tree it is applied to; so the invariant holds after every replay
\* of well-formed operations.
C1_WellFormedReplayKeepsInvariant ==
  /\ TreeConsistent(commitTree)
  /\ [][ (TreeConsistent(commitTree) /\ (AtOperation => WellFormedOperation))
           => TreeConsistent(commitTree') ]_vars

\* A well-formed Add has acted: root 1 and then node 2 under it were added
\* to an empty tree.
C1_Witness ==
  /\ pc = "decode" /\ operations \in AddOps /\ i = Len(operations)
  /\ opCount = 2
  /\ DOMAIN commitTree.nodes = {1, 2}
  /\ commitTree.nodes[1].type = ELEMENT_TYPE_ROOT
  /\ commitTree.nodes[1].displayName = NullName
  /\ commitTree.nodes[1].children = <<2>>
  /\ commitTree.nodes[2].parentID = 1

\* The smallest-first enumeration of a finite set of indexes.
RECURSIVE Ascending(_)
Ascending(S) ==
  IF S = {} THEN <<>>
  ELSE LET m == CHOOSE x \in S : \A y \in S : x <= y
       IN  <<m>> \o Ascending(S \ {m})

\* C2: the tree a pass is analysed on is the snapshot with the records of
\* all indexes up to the pass's replayed on it, in index order, each once.
C2_ReplayedInIndexOrder ==
  pc = "analyse" => applied = Ascending(withRecord)

\* C3: decoding and applying a record never raises, whatever its cells.
C3_NeverRaises == pc # "fault"

\* Ids and parents the single-operation properties are tried on.
ProbeIds == {2, 3}
ProbeParents == {1, 2, 3}

\* An encoded Add of a non-root node, and a Remove of one id.
EncodeAdd(id, parentID) ==
  <<TREE_OPERATION_ADD, id, FunctionType, parentID, 0, 1, 0, 0>>
EncodeRemove(id) == <<TREE_OPERATION_REMOVE, 1, id>>

\* The tree after the decoder has made two iterations on record rec from
\* the current state.
AfterOne(rec) == Switch(commitTree, warningSet, <<NameA>>, rec, 0)
AfterTwo(rec) ==
  Switch(AfterOne(rec).tree, AfterOne(rec).warningSet, <<NameA>>, rec, AfterOne(rec).i)

AddThenRemoveRestores(id, parentID) ==
  LET after == AfterTwo(EncodeAdd(id, parentID) \o EncodeRemove(id)).tree.nodes
  IN  /\ Has(after, parentID)
      /\ after[parentID].children = commitTree.nodes[parentID].children

\* C4 (as stated): Add(id, parent) immediately followed by Remove([id])
\* leaves the children list of parent as it was, for any parent/id pair.
C4_AddRemoveRestoresAnyPair ==
  \A id \in ProbeIds, parentID \in ProbeParents :
    Has(commitTree.nodes, parentID) => AddThenRemoveRestores(id, parentID)

\* C4 (amended): it does so for every present parent and every id other
\* than parent that parent's children list does not hold already.
C4_AddRemoveRestoresNewChild ==
  \A id \in ProbeIds, parentID \in ProbeParents :
    ( /\ Has(commitTree.nodes, parentID)
      /\ id # parentID
      /\ ~Includes(commitTree.nodes[parentID].children, id) )
    => AddThenRemoveRestores(id, parentID)

\* Node 3 of the chain 1 -> 2 -> 3 was added under 1 and removed again:
\* the children of 1 are <<2>> as before.
C4_Witness ==
  /\ pc = "decode" /\ operations = EncodeRemove(3) /\ i = 3 /\ opCount = 2
  /\ DOMAIN commitTree.nodes = {1, 2}
  /\ commitTree.nodes[1].children = <<2>>
  /\ commitTree.nodes[2].children = <<>>
  /\ commitTree.nodes[2].parentID = 1

AddAttachesOnce(id, parentID) ==
  LET after == AfterOne(EncodeAdd(id, parentID)).tree.nodes
  IN  /\ Has(after, parentID)
      /\ Occurrences(after[parentID].children, id) = 1
      /\ \A n \in DOMAIN after \ {parentID} : ~Includes(after[n].children, id)
      /\ after[id].parentID = parentID

\* C6 (as stated): after Add(id, parent) with parent present, id is once in
\* parent's children, in no other children list, and names parent.
C6_AddDetachesFromAnyParent ==
  \A id \in ProbeIds, parentID \in ProbeParents :
    Has(commitTree.nodes, parentID) => AddAttachesOnce(id, parentID)

WithoutAll(s, removed) == SelectSeq(s, LAMBDA x : x \notin removed)

ValidCount(count) == IsFinite(count) /\ count >= 0

\* The ids a Remove at the cursor lists, and those of them that are present.
RemoveCount == Cell(operations, i + 1)
RemoveListed ==
  IF ValidCount(RemoveCount)
    THEN { Cell(operations, i + 1 + n) :
             n \in { m \in 1..RemoveCount : InRecord(operations, i + 1 + m) } }
    ELSE {}
RemoveTargets == RemoveListed \cap DOMAIN commitTree.nodes

\* C7: Remove deletes exactly the listed ids that are present and takes
\* each out of the children list of the node its parentID names; every
\* other node, the descendants of a removed node included, stays in the
\* node map with its parentID, name, base duration and type unchanged.
C7_RemoveIsNotRecursive ==
  [][ DecodeRemove =>
        LET nodes == commitTree.nodes
            after == commitTree'.nodes
        IN  /\ DOMAIN after = DOMAIN nodes \ RemoveTargets
            /\ commitTree'.rootID = commitTree.rootID
            /\ \A n \in DOMAIN after :
                 /\ after[n].parentID = nodes[n].parentID
                 /\ after[n].displayName = nodes[n].displayName
                 /\ after[n].treeBaseDuration = nodes[n].treeBaseDuration
                 /\ after[n].type = nodes[n].type
                 /\ after[n].children =
                      WithoutAll(nodes[n].children,
                                 { x \in RemoveTargets : nodes[x].parentID = n })
    ]_vars

\* Node 2 of the chain 1 -> 2 -> 3 was removed: its child 3 is still in the
\* node map and still names 2 as its parent.
C7_Witness ==
  /\ pc = "decode" /\ operations = EncodeRemove(2) /\ i = 3 /\ opCount = 1
  /\ DOMAIN commitTree.nodes = {1, 3}
  /\ commitTree.nodes[1].children = <<>>
  /\ commitTree.nodes[3].parentID = 2
  /\ commitTree.nodes[3].displayName = NameB

\* The operation at the cursor is whole: its payload ends inside the record.
WholeAt(width) == i + width <= Len(operations)

NoOpAdvancing(width) ==
  /\ commitTree' = commitTree
  /\ pc' = "decode"
  /\ i' = i + width

\* C8: a Remove all of whose ids are absent, and a ReorderChildren or an
\* UpdateBaseDuration whose id is absent, leave the tree as it is, raise
\* nothing and move the cursor past the whole payload.
C8_AbsentTargetIsNoOp ==
  [][ /\ ( /\ DecodeRemove
           /\ ValidCount(RemoveCount)
           /\ WholeAt(2 + RemoveCount)
           /\ RemoveTargets = {} )
         => NoOpAdvancing(2 + RemoveCount)
      /\ ( /\ DecodeReorderChildren
           /\ ValidCount(Cell(operations, i + 2))
           /\ WholeAt(3 + Cell(operations, i + 2))
           /\ ~Has(commitTree.nodes, Cell(operations, i + 1)) )
         => NoOpAdvancing(3 + Cell(operations, i + 2))
      /\ ( /\ DecodeUpdateTreeBaseDuration
           /\ WholeAt(3)
           /\ ~Has(commitTree.nodes, Cell(operations, i + 1)) )
         => NoOpAdvancing(3)
    ]_vars

\* A Remove of two ids was decoded on the empty tree and the cursor is at
\* the end of its payload.
C8_Witness ==
  /\ pc = "decode" /\ opCount = 1
  /\ operations = <<TREE_OPERATION_REMOVE, 2, 2, 3>> /\ i = 4
  /\ commitTree.nodes = EmptyNodes

UnknownWarnings(set) == { w \in set : w.msg = WarnUnknownOperation(0).msg }

\* C9: the step that meets an unknown operation code records the diagnostic
\* of that code, moves the cursor one cell on, leaves the tree as it is and
\* stays in the loop; the diagnostics of unknown codes are, at any time and
\* so in the report, one for each distinct code met.
C9_UnknownOperationOneDiagnostic ==
  /\ [] ( UnknownWarnings(warningSet) =
            { WarnUnknownOperation(unknownSeen[n]) : n \in DOMAIN unknownSeen } )
  /\ [][ DecodeUnknown =>
           /\ commitTree' = commitTree
           /\ i' = i + 1
           /\ pc' = "decode"
           /\ warningSet' = warningSet \cup {WarnUnknownOperation(Operation)}
       ]_vars

\* The report is produced after the same unknown code was met twice, and
\* holds one diagnostic for it.
C9_Witness ==
  /\ pc = "report"
  /\ Len(unknownSeen) = 2
  /\ unknownSeen[1] = unknownSeen[2]
  /\ UnknownWarnings(warningSet) = {WarnUnknownOperation(unknownSeen[1])}

DecodeTreeOperation ==
  \/ DecodeAdd
  \/ DecodeRemove
  \/ DecodeReorderChildren
  \/ DecodeUpdateTreeBaseDuration

\* Operation rec decoded at the cursor has the effect it has when ignored
\* precedes it in the record.
SameEffectAfter(ignored) ==
  LET rec == ignored \o operations
      r1 == Switch(commitTree, warningSet, stringTable, rec, 0)
      r2 == Switch(r1.tree, r1.warningSet, stringTable, rec, r1.i)
  IN  /\ r1.tree = commitTree
      /\ r1.i = Len(ignored)
      /\ r2.tree = commitTree'
      /\ r2.warningSet = warningSet'
      /\ r2.i = Len(ignored) + i'

\* C10: an ignored operation leaves the tree as it is and moves the cursor
\* to the end of its payload, and an Add, Remove, ReorderChildren or
\* UpdateBaseDuration has the same effect after any ignored operation as it
\* has without it.
C10_IgnoredOperationsKeepAlignment ==
  [][ /\ (DecodeIgnored /\ operations \in IgnoredOps /\ i = 0)
         => (commitTree' = commitTree /\ pc' = "decode" /\ i' = Len(operations))
      /\ (DecodeTreeOperation /\ i = 0)
         => \A ignored \in IgnoredOps : SameEffectAfter(ignored)
    ]_vars

\* A suspenders update of two changes was skipped after an operation that
\* built a node, and the cursor is at the end of its payload.
C10_Witness ==
  /\ pc = "decode" /\ opCount = 2
  /\ operations = <<SUSPENSE_TREE_OPERATION_SUSPENDERS, 2, 2, 1, 0, 0, 1, 1, 3, 0, 0, 1, 0>>
  /\ i = Len(operations)
  /\ commitTree.nodes # EmptyNodes

\* The step records a diagnostic: afterwards the warning set holds one that
\* accounts for the whole change of the set.
RecordsDiagnostic ==
  /\ warningSet' # {}
  /\ \E w \in warningSet' : warningSet' = warningSet \cup {w}

\* The operation at the cursor is cut short by the end of the record.
AtTruncatedOperation ==
  AtOperation /\ final /\ i = 0 /\ operations \in TruncatedOps

\* C11: a record with a malformed string table is left without a change of
\* the tree and with a diagnostic; an operation whose payload the end of
\* the record cuts short is not applied, ends the decoding of the record
\* and records a diagnostic; neither stops the analysis.
C11_DecodeErrorAbortsRecord ==
  [][ /\ (BeginCommit /\ DecodeStringTable(operations', warningSet).outcome = "return")
         => (commitTree' = commitTree /\ pc' = "analyse" /\ RecordsDiagnostic)
      /\ (Decode /\ AtTruncatedOperation)
         => ( /\ commitTree' = commitTree
              /\ pc' = "decode"
              /\ ~InRecord(operations, i')
              /\ RecordsDiagnostic )
    ]_vars

\* ============================================================ flamegraph
\* buildCommitFlamegraph.  Durations are kept in thousandths of a
\* millisecond.  A Map or a Set of the source is a sequence in insertion
\* order: a Map a sequence of <<key, value>> with distinct keys, a Set a
\* sequence without repetition.

\* round(num): Math.round(num * 100) / 100, halves going up.
Round(t) == IF ~IsFinite(t) THEN 0 ELSE ((t + 5) \div 10) * 10

MapIndex(m, k) == { n \in 1..Len(m) : m[n][1] = k }
MapHas(m, k) == MapIndex(m, k) # {}
\* map.get(k) ?? 0
MapGet0(m, k) == IF MapHas(m, k) THEN m[CHOOSE n \in MapIndex(m, k) : TRUE][2] ELSE 0
MapSet(m, k, v) ==
  IF MapHas(m, k) THEN [n \in 1..Len(m) |-> IF m[n][1] = k THEN <<k, v>> ELSE m[n]]
  ELSE Append(m, <<k, v>>)
MapKeys(m) == [n \in 1..Len(m) |-> m[n][1]]

\* normalizePairEntries on an array of [key, value] items: the items whose
\* key is finite.
normalizePairEntries(value) == SelectSeq(value, LAMBDA item : IsFinite(item[1]))

\* new Map(pairs)
RECURSIVE MapOf(_, _)
MapOf(pairs, m) ==
  IF pairs = <<>> THEN m
  ELSE MapOf(Tail(pairs), MapSet(m, Head(pairs)[1], Head(pairs)[2]))

toPairMap(value) == MapOf(normalizePairEntries(value), <<>>)

\* set.add(x)
SetAdd(s, x) == IF Includes(s, x) THEN s ELSE Append(s, x)

RECURSIVE SetAddAll(_, _)
SetAddAll(s, xs) ==
  IF xs = <<>> THEN s ELSE SetAddAll(SetAdd(s, Head(xs)), Tail(xs))

\* A rendered set that leaves the change descriptions out.
RenderedFibersWithoutReasons(actualByFiber, selfByFiber, reasonsByFiber) ==
  SetAddAll(<<>>, MapKeys(actualByFiber) \o MapKeys(selfByFiber))

\* new Set([...actualByFiber.keys(), ...selfByFiber.keys(), ...reasonsByFiber.keys()])
RenderedFibers(actualByFiber, selfByFiber, reasonsByFiber) ==
  SetAddAll(<<>>, MapKeys(actualByFiber) \o MapKeys(selfByFiber) \o MapKeys(reasonsByFiber))

\* Elements of a sequence without repetition, in ascending order.
RECURSIVE SortNumeric(_)
SortNumeric(s) ==
  IF s = <<>> THEN <<>>
  ELSE LET least == CHOOSE x \in {s[n] : n \in 1..Len(s)} :
                      \A y \in {s[n] : n \in 1..Len(s)} : x <= y
       IN  <<least>> \o SortNumeric(Without(s, least))

\* nodesByID.keys().next().value.  The trees of this section keep their
\* nodes in ascending order of id (the snapshots list them so and at most
\* one node is added), so the first key is the least; undefined for an
\* empty map.
FirstKey(nodes) ==
  IF DOMAIN nodes = {} THEN NaN
  ELSE CHOOSE k \in DOMAIN nodes : \A other \in DOMAIN nodes : k <= other

\* rootFiberId as first computed (lines 1438-1442).
RootFiberId(tree) ==
  LET r == IF IsFinite(tree.rootID) THEN tree.rootID ELSE NaN
  IN  IF ~IsFinite(r) \/ (~Has(tree.nodes, r) /\ DOMAIN tree.nodes # {})
      THEN FirstKey(tree.nodes) ELSE r

\* A walk that includes no ancestor.
WalkUpNowhere(nodes, cursor, seen, inc) == inc

\* The walk from a rendered fiber up its parentID chain (while (true)).
RECURSIVE WalkUp(_, _, _, _)
WalkUp(nodes, cursor, seen, inc) ==
  IF ~Has(nodes, cursor) THEN inc
  ELSE LET parentID == nodes[cursor].parentID
       IN  IF ~IsFinite(parentID) \/ parentID = 0 \/ parentID \in seen THEN inc
           ELSE WalkUp(nodes, parentID, seen \cup {parentID}, SetAdd(inc, parentID))

\* for (const fiberId of renderedFibers)
RECURSIVE IncludeRendered(_, _, _)
IncludeRendered(nodes, rendered, inc) ==
  IF rendered = <<>> THEN inc
  ELSE IncludeRendered(nodes, Tail(rendered),
         WalkUp(nodes, Head(rendered), {Head(rendered)}, SetAdd(inc, Head(rendered))))

\* includedFiberIDs and the final rootFiberId (lines 1444-1473).
IncludedFiberIDs(tree, rendered) ==
  LET root == RootFiberId(tree)
      inc1 == IncludeRendered(tree.nodes, rendered,
                              IF IsFinite(root) THEN <<root>> ELSE <<>>)
      inc2 == IF inc1 = <<>> /\ DOMAIN tree.nodes # {}
              THEN <<FirstKey(tree.nodes)>> ELSE inc1
  IN  [rootFiberId |-> IF ~IsFinite(root) /\ inc2 # <<>> THEN inc2[1] ELSE root,
       includedFiberIDs |-> inc2]

\* parentFiberId of an included fiber (lines 1483-1492).
ParentFiberId(nodes, inc, root, fiberId) ==
  IF fiberId = root THEN 0
  ELSE LET parentCandidate == IF Has(nodes, fiberId) THEN nodes[fiberId].parentID
                              ELSE NaN
       IN  IF IsFinite(parentCandidate) /\ Includes(inc, parentCandidate)
           THEN parentCandidate
           ELSE IF IsFinite(root) THEN root ELSE 0

\* The loop that fills parentByFiberID and childrenByFiberID (1481-1502).
RECURSIVE LinkLoop(_, _, _, _, _)
LinkLoop(nodes, inc, root, rest, maps) ==
  IF rest = <<>> THEN maps
  ELSE LET fiberId == Head(rest)
           parentFiberId == ParentFiberId(nodes, inc, root, fiberId)
           children == IF parentFiberId \in DOMAIN maps.childrenByFiberID
                       THEN maps.childrenByFiberID[parentFiberId] ELSE <<>>
           childrenBy == IF parentFiberId # 0 /\ ~Includes(children, fiberId)
                         THEN Put(maps.childrenByFiberID, parentFiberId,
                                  Append(children, fiberId))
                         ELSE maps.childrenByFiberID
       IN  LinkLoop(nodes, inc, root, Tail(rest),
                    [parentByFiberID |-> Put(maps.parentByFiberID, fiberId, parentFiberId),
                     childrenByFiberID |-> childrenBy])

\* The loop that puts the children in tree order (lines 1504-1513).
RECURSIVE OrderLoop(_, _, _, _)
OrderLoop(nodes, inc, rest, childrenBy) ==
  IF rest = <<>> THEN childrenBy
  ELSE LET fiberId == Head(rest)
       IN  IF ~Has(nodes, fiberId) THEN OrderLoop(nodes, inc, Tail(rest), childrenBy)
           ELSE LET knownChildren == childrenBy[fiberId]
                    orderedFromTree == SelectSeq(nodes[fiberId].children,
                                                 LAMBDA c : Includes(inc, c))
                    extras == SortNumeric(SelectSeq(knownChildren,
                                LAMBDA c : ~Includes(orderedFromTree, c)))
                IN  OrderLoop(nodes, inc, Tail(rest),
                              Put(childrenBy, fiberId, orderedFromTree \o extras))

\* parentByFiberID and childrenByFiberID (lines 1475-1513).
BuildLinks(tree, inc) ==
  LET linked == LinkLoop(tree.nodes, inc.includedFiberIDs, inc.rootFiberId,
                         inc.includedFiberIDs,
                         [parentByFiberID |-> EmptyNodes,
                          childrenByFiberID |->
                            [id \in {inc.includedFiberIDs[n] :
                                       n \in 1..Len(inc.includedFiberIDs)} |-> <<>>]])
  IN  [parentByFiberID |-> linked.parentByFiberID,
       childrenByFiberID |-> OrderLoop(tree.nodes, inc.includedFiberIDs,
                                       inc.includedFiberIDs, linked.childrenByFiberID)]

\* A visit that gives the children the depth of their parent.
RECURSIVE VisitChildrenSameDepth(_, _, _, _)
VisitChildrenSameDepth(children, parentDepth, depth, queue) ==
  IF children = <<>> THEN [depth |-> depth, queue |-> queue]
  ELSE IF Head(children) \in DOMAIN depth
       THEN VisitChildrenSameDepth(Tail(children), parentDepth, depth, queue)
       ELSE VisitChildrenSameDepth(Tail(children), parentDepth,
                                   Put(depth, Head(children), parentDepth),
                                   Append(queue, Head(children)))

\* for (const childID of childrenByFiberID.get(parentID) ?? [])
RECURSIVE VisitChildren(_, _, _, _)
VisitChildren(children, parentDepth, depth, queue) ==
  IF children = <<>> THEN [depth |-> depth, queue |-> queue]
  ELSE IF Head(children) \in DOMAIN depth
       THEN VisitChildren(Tail(children), parentDepth, depth, queue)
       ELSE VisitChildren(Tail(children), parentDepth,
                          Put(depth, Head(children), parentDepth + 1),
                          Append(queue, Head(children)))

\* while (queue.length > 0)
RECURSIVE Bfs(_, _, _)
Bfs(childrenBy, queue, depth) ==
  IF queue = <<>> THEN depth
  ELSE LET parentID == Head(queue)
           r == VisitChildren(IF parentID \in DOMAIN childrenBy
                              THEN childrenBy[parentID] ELSE <<>>,
                              IF parentID \in DOMAIN depth THEN depth[parentID] ELSE 0,
                              depth, Tail(queue))
       IN  Bfs(childrenBy, r.queue, r.depth)

\* depthByFiberID (lines 1515-1535).
AssignDepths(inc, childrenBy) ==
  LET root == inc.rootFiberId
      ids == {inc.includedFiberIDs[n] : n \in 1..Len(inc.includedFiberIDs)}
      walked == IF IsFinite(root) /\ root \in ids
                THEN Bfs(childrenBy, <<root>>, Put(EmptyNodes, root, 0))
                ELSE EmptyNodes
  IN  [id \in ids |->
         IF id \in DOMAIN walked THEN walked[id]
         ELSE IF IsFinite(root) /\ id # root THEN 1 ELSE 0]

\* ----------------------------------------------------- computeSubtreeMs
\* An activation of computeSubtreeMs: the fiber, the total so far and the
\* children the for loop has still to visit.  lineage holds the fibers of
\* the activations on the stack (lineage.add on entry, delete on exit).
Lineage(frames) == { frames[n].fiberId : n \in 1..Len(frames) }

\* Number(selfByFiber.get(fiberId) ?? 0)
SelfOf(selfByFiber, fiberId) == MapGet0(selfByFiber, fiberId)

ActivationWithoutSelf(selfByFiber, childrenBy, fiberId) ==
  [fiberId |-> fiberId,
   total |-> 0,
   rest |-> IF fiberId \in DOMAIN childrenBy THEN childrenBy[fiberId] ELSE <<>>]

\* let total = Number(selfByFiber.get(fiberId) ?? 0); if not finite, 0.
Activation(selfByFiber, childrenBy, fiberId) ==
  [fiberId |-> fiberId,
   total |-> IF IsFinite(SelfOf(selfByFiber, fiberId))
             THEN SelfOf(selfByFiber, fiberId) ELSE 0,
   rest |-> IF fiberId \in DOMAIN childrenBy THEN childrenBy[fiberId] ELSE <<>>]

AddToTopDropped(frames, value) ==
  [frames EXCEPT ![Len(frames)] = [@ EXCEPT !.rest = Tail(@)]]

\* total += value in the innermost activation, whose loop moves on.
AddToTop(frames, value) ==
  [frames EXCEPT ![Len(frames)] =
     [@ EXCEPT !.total = Plus(@, value), !.rest = Tail(@)]]

\* ---------------------------------------------------------------- names
\* `${rootName}::Fiber#${fiberId}` for the root name "root" and a fiber id
\* of one digit.
FiberName(fiberId) ==
  <<114, 111, 111, 116, 58, 58, 70, 105, 98, 101, 114, 35, 48 + fiberId>>

\* resolveFiberName
resolveFiberName(nodes, fallbackFiberNameMap, fiberId) ==
  IF Has(nodes, fiberId) /\ nodes[fiberId].displayName # NullName
  THEN [name |-> nodes[fiberId].displayName, usedFallback |-> FALSE]
  ELSE IF MapHas(fallbackFiberNameMap, fiberId)
       THEN [name |-> MapGet0(fallbackFiberNameMap, fiberId), usedFallback |-> FALSE]
       ELSE [name |-> FiberName(fiberId), usedFallback |-> TRUE]

\* buildFiberNameMap: the snapshot entries that have a display name.
RECURSIVE buildFiberNameMap(_)
buildFiberNameMap(entries) ==
  IF entries = <<>> THEN <<>>
  ELSE LET e == entries[Len(entries)]
           before == buildFiberNameMap(SubSeq(entries, 1, Len(entries) - 1))
       IN  IF e.displayName # NullName THEN MapSet(before, e.id, e.displayName)
           ELSE before

\* a.localeCompare(b) < 0 on names of capitals, digits and the fallback
\* names: the order of the code points.
RECURSIVE NameBefore(_, _)
NameBefore(a, b) ==
  IF b = <<>> THEN FALSE
  ELSE IF a = <<>> THEN TRUE
  ELSE IF Head(a) # Head(b) THEN Head(a) < Head(b)
  ELSE NameBefore(Tail(a), Tail(b))

\* ----------------------------------------------------------------- nodes
\* One element of nodes (lines 1563-1613), without the fields copied from
\* the tree node and the hook details.
FlameNode(tree, a, inc, maps, depth, computed, fiberId) ==
  LET nameMeta == resolveFiberName(tree.nodes, a.fallbackFiberNameMap, fiberId)
      selfMs == MapGet0(a.selfByFiber, fiberId)
      subtreeMs == MapGet0(a.actualByFiber, fiberId)
  IN  [fiberId |-> fiberId,
       parentFiberId |-> IF fiberId \in DOMAIN maps.parentByFiberID
                         THEN maps.parentByFiberID[fiberId] ELSE 0,
       childrenFiberIds |-> IF fiberId \in DOMAIN maps.childrenByFiberID
                            THEN maps.childrenByFiberID[fiberId] ELSE <<>>,
       depth |-> IF fiberId \in DOMAIN depth THEN depth[fiberId] ELSE 0,
       name |-> nameMeta.name,
       didRender |-> \/ Includes(a.renderedFibers, fiberId)
                     \/ (IsFinite(selfMs) /\ selfMs > 0)
                     \/ (IsFinite(subtreeMs) /\ subtreeMs > 0)
                     \/ MapHas(a.reasonsByFiber, fiberId),
       usedFallbackName |-> nameMeta.usedFallback,
       selfMs |-> Round(IF IsFinite(selfMs) THEN selfMs ELSE 0),
       subtreeMs |-> Round(IF IsFinite(subtreeMs) THEN subtreeMs ELSE 0),
       computedSubtreeMs |-> Round(IF fiberId \in DOMAIN computed
                                   THEN computed[fiberId] ELSE 0)]

\* The comparator of nodes: depth, then fiberId.
NodeBefore(a, b) ==
  IF a.depth # b.depth THEN a.depth < b.depth ELSE a.fiberId < b.fiberId

\* The comparator of renderedComponents: subtreeMs and selfMs descending,
\* then the name.
RenderedBefore(a, b) ==
  IF b.subtreeMs # a.subtreeMs THEN b.subtreeMs < a.subtreeMs
  ELSE IF b.selfMs # a.selfMs THEN b.selfMs < a.selfMs
  ELSE NameBefore(a.name, b.name)

\* Array.prototype.sort is stable: an element goes before the first one it
\* must precede among those already placed.
RECURSIVE InsertNode(_, _)
InsertNode(x, sorted) ==
  IF sorted = <<>> THEN <<x>>
  ELSE IF NodeBefore(x, sorted[Len(sorted)]) 
       THEN Append(InsertNode(x, SubSeq(sorted, 1, Len(sorted) - 1)), sorted[Len(sorted)])
       ELSE Append(sorted, x)

RECURSIVE SortNodes(_)
SortNodes(s) ==
  IF s = <<>> THEN <<>>
  ELSE InsertNode(s[Len(s)], SortNodes(SubSeq(s, 1, Len(s) - 1)))

RECURSIVE InsertRendered(_, _)
InsertRendered(x, sorted) ==
  IF sorted = <<>> THEN <<x>>
  ELSE IF RenderedBefore(x, sorted[Len(sorted)])
       THEN Append(InsertRendered(x, SubSeq(sorted, 1, Len(sorted) - 1)),
                   sorted[Len(sorted)])
       ELSE Append(sorted, x)

RECURSIVE SortRendered(_)
SortRendered(s) ==
  IF s = <<>> THEN <<>>
  ELSE InsertRendered(s[Len(s)], SortRendered(SubSeq(s, 1, Len(s) - 1)))

\* One element of renderedComponents.  Every rendered fiber is in
\* includedFiberIDs (line 1450), so nodeByFiberID always has it.
RenderedComponent(node) ==
  [fiberId |-> node.fiberId, name |-> node.name,
   usedFallbackName |-> node.usedFallbackName, selfMs |-> node.selfMs,
   subtreeMs |-> node.subtreeMs, computedSubtreeMs |-> node.computedSubtreeMs]

\* The value returned (lines 1563-1675).
BuildResult(tree, a, inc, maps, depth, computed) ==
  LET ids == inc.includedFiberIDs
      nodes == SortNodes([n \in 1..Len(ids) |->
                 FlameNode(tree, a, inc, maps, depth, computed, ids[n])])
      nodeOf(fiberId) == nodes[CHOOSE n \in 1..Len(nodes) : nodes[n].fiberId = fiberId]
      renderedComponents ==
        SortRendered([n \in 1..Len(a.renderedFibers) |->
                        RenderedComponent(nodeOf(a.renderedFibers[n]))])
  IN  [rootFiberId |-> inc.rootFiberId,
       totalNodesInCommitTree |-> Cardinality(DOMAIN tree.nodes),
       includedNodeCount |-> Len(nodes),
       renderedNodeCount |-> Len(renderedComponents),
       renderedNodeIds |-> [n \in 1..Len(renderedComponents) |->
                              renderedComponents[n].fiberId],
       nodes |-> nodes,
       renderedComponents |-> renderedComponents]

\* ---------------------------------------------------- flamegraph inputs
\* Trees the replay leaves behind: a snapshot, or a snapshot after one
\* operation (a re-add, a node added under itself, a removed inner node,
\* a child listed under a second parent).
FlameOps == {<<>>} \cup AddOps \cup RemoveOps \cup ReorderOps

FlameTree(root, op) ==
  IF op = <<>> THEN buildInitialCommitTree(root)
  ELSE Switch(buildInitialCommitTree(root), {}, <<NameA>>, op, 0).tree

\* commit.fiberActualDurations, commit.fiberSelfDurations and
\* commit.changeDescriptions as arrays of [fiberId, value].
ActualInputs ==
  { <<>>,
    << <<3, 2000>> >>,
    << <<1, 6000>>, <<2, 5000>>, <<3, 2000>> >>,
    << <<1, 6000>>, <<2, 3000>>, <<3, 2000>> >>,
    << <<4, 1000>>, <<2, 2004>> >> }

SelfInputs ==
  { <<>>,
    << <<3, 2000>> >>,
    << <<1, 1000>>, <<2, 3000>>, <<3, 2000>> >>,
    << <<2, 3000>> >>,
    << <<NaN, 1000>>, <<3, 1000>>, <<2, 1005>>, <<3, 2005>> >> }

ReasonInputs ==
  { <<>>,
    << <<2, 1>> >>,
    << <<4, 1>>, <<3, 1>> >> }

\* ---------------------------------------------------- flamegraph actions
\* The analysis of one commit from the reading of its maps (line 1748) to
\* the return of buildCommitFlamegraph; the replay variables stand still.
FlameInit ==
  /\ commitTree = [nodes |-> EmptyNodes, rootID |-> 0]
  /\ FlameIdle
  /\ SummaryIdle
  /\ ReportIdle
  /\ warningSet = {}
  /\ commitIndex = 0
  /\ pc = "analyse"
  /\ operations = <<>>
  /\ final = TRUE
  /\ i = 0
  /\ stringTable = <<>>
  /\ opCount = 0
  /\ applied = <<>>
  /\ withRecord = {}
  /\ unknownSeen = <<>>

\* Lines 1716-1718 and 1768-1780: a commit of a root, with the tree its
\* edit record left and its duration and change maps, is handed to
\* buildCommitFlamegraph.
AnalyzeCommit ==
  /\ phase = "idle"
  /\ \E root \in Roots, op \in FlameOps :
       /\ commitTree' = FlameTree(root, op)
       /\ \E actual \in ActualInputs, self \in SelfInputs, reasons \in ReasonInputs :
            args' = [fiberActualDurations |-> actual,
                     fiberSelfDurations |-> self,
                     changeDescriptions |-> reasons,
                     fallbackFiberNameMap |-> buildFiberNameMap(root.snapshots)]
  /\ phase' = "commit"
  /\ computedSubtreeMsByFiberID' = EmptyNodes
  /\ UNCHANGED <<warningSet, commitIndex, pc, operations, final, i, stringTable,
                 opCount, applied, withRecord, unknownSeen, summaryVars, reportVars,
                 included, links, depthByFiberID, stack, flamegraph>>

\* Lines 1748-1751: the three maps and the rendered set.
ReadCommit ==
  /\ phase = "commit"
  /\ LET actualByFiber == toPairMap(args.fiberActualDurations)
         selfByFiber == toPairMap(args.fiberSelfDurations)
         reasonsByFiber == toPairMap(args.changeDescriptions)
     IN  args' = [renderedFibers |->
                    RenderedFibers(actualByFiber, selfByFiber, reasonsByFiber),
                  actualByFiber |-> actualByFiber,
                  selfByFiber |-> selfByFiber,
                  reasonsByFiber |-> reasonsByFiber,
                  fallbackFiberNameMap |-> args.fallbackFiberNameMap]
  /\ phase' = "include"
  /\ UNCHANGED <<vars, summaryVars, reportVars, included, links, depthByFiberID,
                 computedSubtreeMsByFiberID, stack, flamegraph>>

\* Lines 1437-1473.
IncludeFibers ==
  /\ phase = "include"
  /\ included' = IncludedFiberIDs(commitTree, args.renderedFibers)
  /\ phase' = "link"
  /\ UNCHANGED <<vars, summaryVars, reportVars, args, links, depthByFiberID,
                 computedSubtreeMsByFiberID, stack, flamegraph>>

\* Lines 1475-1513.
LinkFibers ==
  /\ phase = "link"
  /\ links' = BuildLinks(commitTree, included)
  /\ phase' = "depth"
  /\ UNCHANGED <<vars, summaryVars, reportVars, args, included, depthByFiberID,
                 computedSubtreeMsByFiberID, stack, flamegraph>>

\* Lines 1515-1535.
MeasureDepths ==
  /\ phase = "depth"
  /\ depthByFiberID' = AssignDepths(included, links.childrenByFiberID)
  /\ phase' = "subtree"
  /\ UNCHANGED <<vars, summaryVars, reportVars, args, included, links,
                 computedSubtreeMsByFiberID, stack, flamegraph>>

\* computedSubtreeMsByFiberID.has(fiberId)
Computed(fiberId) == fiberId \in DOMAIN computedSubtreeMsByFiberID

\* lineage.has(fiberId)
InLineageNever(frames, fiberId) == FALSE
InLineage(frames, fiberId) == fiberId \in Lineage(frames)

\* The fibers the loop of line 1559 has still to compute: a call for a
\* fiber already computed returns at once.
Pending ==
  SelectSeq(included.includedFiberIDs, LAMBDA fiberId : ~Computed(fiberId))

subtreeFrame == <<vars, summaryVars, reportVars, args, phase, included, links, depthByFiberID, flamegraph>>

\* computeSubtreeMs(fiberId) called by the loop of line 1559, with a new
\* lineage.
SubtreeCall ==
  /\ phase = "subtree"
  /\ stack = <<>>
  /\ Pending # <<>>
  /\ stack' = <<Activation(args.selfByFiber, links.childrenByFiberID, Head(Pending))>>
  /\ UNCHANGED <<subtreeFrame, computedSubtreeMsByFiberID>>

Top == stack[Len(stack)]
AtChild == phase = "subtree" /\ stack # <<>> /\ Top.rest # <<>>
Child == Head(Top.rest)

\* The recursive call returns the value already computed (line 1539).
SubtreeMemoChild ==
  /\ AtChild
  /\ Computed(Child)
  /\ stack' = AddToTop(stack, computedSubtreeMsByFiberID[Child])
  /\ UNCHANGED <<subtreeFrame, computedSubtreeMsByFiberID>>

\* The recursive call meets a fiber of its lineage (line 1542).
SubtreeLineageChild ==
  /\ AtChild
  /\ ~Computed(Child)
  /\ InLineage(stack, Child)
  /\ stack' = AddToTop(stack, SelfOf(args.selfByFiber, Child))
  /\ UNCHANGED <<subtreeFrame, computedSubtreeMsByFiberID>>

\* The recursive call enters the child (lines 1546-1548).
SubtreeDescend ==
  /\ AtChild
  /\ ~Computed(Child)
  /\ ~InLineage(stack, Child)
  /\ stack' = Append(stack, Activation(args.selfByFiber, links.childrenByFiberID, Child))
  /\ UNCHANGED <<subtreeFrame, computedSubtreeMsByFiberID>>

\* The loop of an activation is over (lines 1554-1556): the total is
\* stored and returned to the caller, which adds it.
SubtreeReturn ==
  /\ phase = "subtree"
  /\ stack # <<>>
  /\ Top.rest = <<>>
  /\ computedSubtreeMsByFiberID' = Put(computedSubtreeMsByFiberID, Top.fiberId, Top.total)
  /\ stack' = IF Len(stack) = 1 THEN <<>>
              ELSE AddToTop(SubSeq(stack, 1, Len(stack) - 1), Top.total)
  /\ UNCHANGED subtreeFrame

\* Lines 1563-1675.
ReturnFlamegraph ==
  /\ phase = "subtree"
  /\ stack = <<>>
  /\ Pending = <<>>
  /\ flamegraph' = BuildResult(commitTree, args, included, links, depthByFiberID,
                               computedSubtreeMsByFiberID)
  /\ phase' = "done"
  /\ UNCHANGED <<vars, summaryVars, reportVars, args, included, links, depthByFiberID,
                 computedSubtreeMsByFiberID, stack>>

FlameNext ==
  \/ AnalyzeCommit
  \/ ReadCommit
  \/ IncludeFibers
  \/ LinkFibers
  \/ MeasureDepths
  \/ SubtreeCall
  \/ SubtreeMemoChild
  \/ SubtreeLineageChild
  \/ SubtreeDescend
  \/ SubtreeReturn
  \/ ReturnFlamegraph

FlameSpec == FlameInit /\ [][FlameNext]_flameVars

\* The steps of the loop of line 1559 and of the calls it makes.
ComputeSubtreeMs ==
  \/ SubtreeCall
  \/ SubtreeMemoChild
  \/ SubtreeLineageChild
  \/ SubtreeDescend
  \/ SubtreeReturn

\* The loop is synchronous code: a step of it that can be taken is taken.
FlameLive == FlameSpec /\ WF_flameVars(ComputeSubtreeMs)

\* ------------------------------------------------- render-cause classifier
\* reasons.join("+")
RECURSIVE Join(_)
Join(reasons) ==
  IF reasons = <<>> THEN ""
  ELSE IF Len(reasons) = 1 THEN Head(reasons)
  ELSE Head(reasons) \o "+" \o Join(Tail(reasons))

\* The null a call returns for a value that is not an object.
Null == "null"

\* Array.isArray(value) && value.length > 0
NonEmptyArray(value) == value.type = "array" /\ Len(value.items) > 0

\* value === true
IsTrue(value) == value.type = "boolean" /\ value.value

\* reasons.push(reason) when the condition holds.
PushIf(reasons, condition, reason) ==
  IF condition THEN Append(reasons, reason) ELSE reasons

\* The pushes of "hooks": for a non-empty hooks array, and for
\* didHooksChange === true when "hooks" is not there yet.
HooksPush(reasons, fields) ==
  LET withHooks == PushIf(reasons, NonEmptyArray(fields.hooks), "hooks")
  IN  PushIf(withHooks,
             IsTrue(fields.didHooksChange) /\ ~Includes(withHooks, "hooks"),
             "hooks")

summarizeChangeDescription(description) ==
  IF description.type # "object" THEN Null
  ELSE LET fields == description.fields
           mount == PushIf(<<>>, IsTrue(fields.isFirstMount), "mount")
           props == PushIf(mount, NonEmptyArray(fields.props), "props")
           state == PushIf(props, NonEmptyArray(fields.state), "state")
           context == PushIf(state, NonEmptyArray(fields.context), "context")
           reasons == HooksPush(context, fields)
       IN  IF reasons = <<>> THEN "unknown" ELSE Join(reasons)

\* The values a changed set takes in a record: absent, empty, one key.
ChangedSets == {Undefined, Array(<<>>), Array(<<"a">>)}
Flags == {Undefined, Boolean(FALSE), Boolean(TRUE)}

\* The change records of an export, and a value that is not a record.
ChangeDescriptions ==
  {Undefined} \cup
  { Object([isFirstMount |-> mount, props |-> props, state |-> state,
            context |-> context, hooks |-> hooks, didHooksChange |-> flag]) :
      mount \in Flags, props \in ChangedSets, state \in ChangedSets,
      context \in ChangedSets, hooks \in ChangedSets, flag \in Flags }

SummaryInit ==
  /\ SummaryIdle
  /\ ReportIdle
  /\ FlameIdle
  /\ commitTree = [nodes |-> EmptyNodes, rootID |-> 0]
  /\ warningSet = {}
  /\ commitIndex = 0
  /\ pc = "analyse"
  /\ operations = <<>>
  /\ final = TRUE
  /\ i = 0
  /\ stringTable = <<>>
  /\ opCount = 0
  /\ applied = <<>>
  /\ withRecord = {}
  /\ unknownSeen = <<>>

\* A call of summarizeChangeDescription.
Summarize ==
  /\ \E description \in ChangeDescriptions :
       /\ changeDescription' = description
       /\ summary' = summarizeChangeDescription(description)
  /\ UNCHANGED <<vars, flameVars, reportVars>>

SummaryNext == Summarize

SummarySpec == SummaryInit /\ [][SummaryNext]_summaryVars

\* ------------------------------------------------ flamegraph properties
Elements(s) == { s[n] : n \in 1..Len(s) }
NoRepetition(s) == \A m, n \in 1..Len(s) : s[m] = s[n] => m = n

Done == phase = "done"
NodeIds == { flamegraph.nodes[n].fiberId : n \in 1..Len(flamegraph.nodes) }
NodeOf(fiberId) ==
  flamegraph.nodes[CHOOSE n \in 1..Len(flamegraph.nodes) :
                     flamegraph.nodes[n].fiberId = fiberId]

\* The keys of the three maps of the pass.
MapKeySet ==
  Elements(MapKeys(args.actualByFiber)) \cup Elements(MapKeys(args.selfByFiber))
    \cup Elements(MapKeys(args.reasonsByFiber))

\* C12: renderedNodeIds lists, each once, exactly the keys of the pass's
\* self-duration, actual-duration and change-description maps.
C12_RenderedIsUnionOfKeys ==
  Done => /\ Elements(flamegraph.renderedNodeIds) = MapKeySet
          /\ NoRepetition(flamegraph.renderedNodeIds)

\* A pass whose change descriptions name a fiber (4) that has no duration,
\* next to a fiber with durations.
C12_Witness ==
  /\ Done
  /\ MapHas(args.reasonsByFiber, 4)
  /\ ~MapHas(args.actualByFiber, 4) /\ ~MapHas(args.selfByFiber, 4)
  /\ MapHas(args.selfByFiber, 2)
  /\ Elements(flamegraph.renderedNodeIds) = {2, 3, 4}

\* The ids a parentID names, for the nodes of S that are in the tree.
ParentsOf(nodes, S) ==
  { nodes[id].parentID : id \in { x \in S : Has(nodes, x) } } \ {0, NaN}

\* S with every ancestor of its members.
RECURSIVE WithAncestors(_, _)
WithAncestors(nodes, S) ==
  IF ParentsOf(nodes, S) \subseteq S THEN S
  ELSE WithAncestors(nodes, S \cup ParentsOf(nodes, S))

\* An included fiber that is no key of the pass's maps is reported neither
\* in renderedNodeIds nor in renderedComponents.
AncestorsNotRendered ==
  \A id \in NodeIds \ MapKeySet :
    /\ id \notin Elements(flamegraph.renderedNodeIds)
    /\ \A n \in 1..Len(flamegraph.renderedComponents) :
         flamegraph.renderedComponents[n].fiberId # id

RECURSIVE Level(_)
Level(k) ==
  IF k = 0 THEN {flamegraph.rootFiberId} \cap NodeIds
  ELSE UNION { Elements(NodeOf(id).childrenFiberIds) : id \in Level(k - 1) }

\* The breadth-first distance of a fiber from the root; NaN when no path
\* of children links leads to it.
Distance(fiberId) ==
  LET ks == { k \in 0..Cardinality(NodeIds) : fiberId \in Level(k) }
  IN  IF ks = {} THEN NaN ELSE CHOOSE k \in ks : \A other \in ks : k <= other

DepthsAreDistances ==
  \A id \in NodeIds :
    IF id = flamegraph.rootFiberId THEN NodeOf(id).depth = 0
    ELSE /\ NodeOf(id).depth = Distance(id)
         /\ NodeOf(id).parentFiberId \in NodeIds
         /\ NodeOf(id).depth = NodeOf(NodeOf(id).parentFiberId).depth + 1

\* C14 (as stated): in every flamegraph the root has depth 0 and every
\* other node has the depth of its breadth-first distance from the root,
\* one more than the depth of the node reported as its parentFiberId.
C14_DepthIsDistanceAlways == Done => DepthsAreDistances

\* Every children list of the tree names nodes whose parentID is the
\* listing node.
ListsOwnChildren(nodes) ==
  \A n \in DOMAIN nodes :
    \A c \in Elements(nodes[n].children) : Has(nodes, c) /\ nodes[c].parentID = n

\* Every fiber the commit rendered is a node of the tree.
RenderedInTree ==
  \A id \in Elements(flamegraph.renderedNodeIds) : Has(commitTree.nodes, id)

WellFormedCommit ==
  /\ TreeConsistent(commitTree)
  /\ ListsOwnChildren(commitTree.nodes)
  /\ RenderedInTree

\* C14 (amended): it is so when the tree satisfies the tree invariant, its
\* children lists agree with the parentIDs and every rendered fiber is a
\* node of the tree.
C14_DepthIsDistanceInConsistentTree ==
  (Done /\ WellFormedCommit) => DepthsAreDistances

\* The chain 1 -> 2 -> 3 with fiber 3 rendered: 3 is at depth 2 under 2.
C14_Witness ==
  /\ Done
  /\ WellFormedCommit
  /\ 3 \in NodeIds
  /\ NodeOf(3).depth = 2
  /\ NodeOf(3).parentFiberId = 2
  /\ flamegraph.rootFiberId = 1

\* The sum of the reported subtreeMs of the listed fibers.
RECURSIVE SumSubtreeMs(_)
SumSubtreeMs(fiberIds) ==
  IF fiberIds = <<>> THEN 0
  ELSE (IF Head(fiberIds) \in NodeIds THEN NodeOf(Head(fiberIds)).subtreeMs ELSE 0)
       + SumSubtreeMs(Tail(fiberIds))

\* C15: every included node reports as subtreeMs the explicit subtree
\* duration of the pass when there is one for it, and otherwise its selfMs
\* plus the sum of the subtreeMs of its children within the included set.
C15_SubtreeIsExplicitOrRecomputed ==
  Done =>
    \A id \in NodeIds :
      IF MapHas(args.actualByFiber, id)
      THEN NodeOf(id).subtreeMs = Round(MapGet0(args.actualByFiber, id))
      ELSE NodeOf(id).subtreeMs
             = NodeOf(id).selfMs + SumSubtreeMs(NodeOf(id).childrenFiberIds)

\* Every duration of the pass is a number that is not negative.
NonNegativeDurations ==
  /\ \A n \in 1..Len(args.actualByFiber) :
       IsFinite(args.actualByFiber[n][2]) /\ args.actualByFiber[n][2] >= 0
  /\ \A n \in 1..Len(args.selfByFiber) :
       IsFinite(args.selfByFiber[n][2]) /\ args.selfByFiber[n][2] >= 0

\* C17: with durations that are not negative, every included node reports
\* a subtreeMs that is at least its selfMs.
C17_SubtreeAtLeastSelf ==
  (Done /\ NonNegativeDurations) =>
    \A id \in NodeIds : NodeOf(id).subtreeMs >= NodeOf(id).selfMs

\* Every included fiber has its recomputed duration and no call is open.
Recomputed == phase = "subtree" /\ stack = <<>> /\ Pending = <<>>

\* The fibers of the activations of computeSubtreeMs, outermost first.
StackIds == [n \in 1..Len(stack) |-> stack[n].fiberId]

\* No fiber is entered inside its own recursion, so the recursion is never
\* deeper than the included set is large.
RecursionBounded ==
  /\ NoRepetition(StackIds)
  /\ Len(stack) <= Len(included.includedFiberIDs)

\* A fiber met again inside its own lineage adds its own self time, and
\* nothing else, to the total of the activation that met it.
RevisitAddsSelfTime ==
  (AtChild /\ ~Computed(Child) /\ Child \in Elements(StackIds))
    => /\ Len(stack') = Len(stack)
       /\ stack'[Len(stack)].total
            = Plus(Top.total, MapGet0(args.selfByFiber, Child))
       /\ stack'[Len(stack)].rest = Tail(Top.rest)
       /\ computedSubtreeMsByFiberID' = computedSubtreeMsByFiberID

\* C16: the recomputation of the subtree durations ends for every children
\* relation, cyclic ones included: no fiber is entered inside its own
\* recursion, a fiber met again in its lineage contributes exactly its
\* self time, and the loop over the included fibers comes to its end.
C16_RecomputationTerminates ==
  /\ [](phase = "subtree" => RecursionBounded)
  /\ [][RevisitAddsSelfTime]_flameVars
  /\ (phase = "subtree") ~> Recomputed

\* A children relation with a cycle has been summed: fiber 2, its own
\* parent and child, was met inside its own recursion, and the flamegraph
\* was returned.
C16_Witness ==
  /\ Done
  /\ 2 \in NodeIds
  /\ Includes(NodeOf(2).childrenFiberIds, 2)
  /\ MapHas(args.selfByFiber, 2)
  /\ NodeOf(2).computedSubtreeMs = Round(2 * MapGet0(args.selfByFiber, 2))
  /\ MapGet0(args.selfByFiber, 2) > 0

\* The children relation the flamegraph reports.
ChildrenOf(fiberId) ==
  IF fiberId \in NodeIds THEN Elements(NodeOf(fiberId).childrenFiberIds) ELSE {}

\* The fibers reached from the set in at most k steps down the relation.
RECURSIVE Reach(_, _)
Reach(set, k) ==
  IF k = 0 THEN set
  ELSE Reach(set \cup UNION { ChildrenOf(id) : id \in set }, k - 1)

\* The node and its descendants within the included set.
SubtreeOf(fiberId) == Reach({fiberId}, Cardinality(NodeIds))

\* The included nodes form a forest: no node is listed twice, under one
\* parent or under two, and none is its own descendant.
IncludedIsTree ==
  /\ \A id \in NodeIds : NoRepetition(NodeOf(id).childrenFiberIds)
  /\ \A id, other \in NodeIds :
       id # other => ChildrenOf(id) \cap ChildrenOf(other) = {}
  /\ \A id \in NodeIds :
       id \notin Reach(ChildrenOf(id), Cardinality(NodeIds))

\* The self duration of the pass for a fiber, 0 without one.
SelfDuration(fiberId) ==
  IF IsFinite(MapGet0(args.selfByFiber, fiberId))
  THEN MapGet0(args.selfByFiber, fiberId) ELSE 0

RECURSIVE SumSelf(_)
SumSelf(set) ==
  IF set = {} THEN 0
  ELSE LET id == CHOOSE x \in set : TRUE
       IN  SelfDuration(id) + SumSelf(set \ {id})

RECURSIVE SumExplicit(_)
SumExplicit(fiberIds) ==
  IF fiberIds = <<>> THEN 0
  ELSE MapGet0(args.actualByFiber, Head(fiberIds)) + SumExplicit(Tail(fiberIds))

ComputedIsExplicit ==
  \A id \in NodeIds :
    MapHas(args.actualByFiber, id)
      => NodeOf(id).computedSubtreeMs = NodeOf(id).subtreeMs

\* C18 (as stated): in a well-formed tree, every node with an explicit
\* subtree duration has a computedSubtreeMs equal to its subtreeMs.
C18_ComputedEqualsExplicitInTree ==
  (Done /\ IncludedIsTree) => ComputedIsExplicit

\* The explicit durations of the pass are additive over the included
\* nodes: each is the node's self duration plus the explicit durations of
\* its children, a missing one counting as 0.
ExplicitAdditive ==
  \A id \in NodeIds :
    MapGet0(args.actualByFiber, id)
      = SelfDuration(id) + SumExplicit(NodeOf(id).childrenFiberIds)

\* C18 (amended): it is so when, besides, the explicit durations of the
\* pass are additive over the included nodes.
C18_ComputedEqualsAdditiveExplicit ==
  (Done /\ IncludedIsTree /\ ExplicitAdditive)
    => ComputedIsExplicit

\* The chain 1 -> 2 -> 3 with additive explicit durations 6, 5 and 2 ms
\* over the self durations 1, 3 and 2 ms.
C18_Witness ==
  /\ Done
  /\ IncludedIsTree /\ ExplicitAdditive
  /\ NodeIds = {1, 2, 3}
  /\ NodeOf(3).parentFiberId = 2
  /\ MapHas(args.actualByFiber, 1)
  /\ NodeOf(1).subtreeMs = 6000
  /\ NodeOf(1).computedSubtreeMs = 6000
  /\ NodeOf(2).computedSubtreeMs = 5000

\* C19: every node carries computedSubtreeMs next to subtreeMs, and when
\* the included nodes form a tree it is the sum, rounded as every reported
\* duration, of the self durations of the node and of its descendants
\* within the included set, each once.
C19_ComputedIsSumOfSelfDurations ==
  Done =>
    /\ \A n \in 1..Len(flamegraph.nodes) :
         {"subtreeMs", "computedSubtreeMs"} \subseteq DOMAIN flamegraph.nodes[n]
    /\ IncludedIsTree =>
         \A id \in NodeIds :
           NodeOf(id).computedSubtreeMs = Round(SumSelf(SubtreeOf(id)))

\* A root with two descendants that have self durations of their own and
\* no explicit duration equal to the sum.
C19_Witness ==
  /\ Done
  /\ IncludedIsTree
  /\ 1 \in NodeIds
  /\ Cardinality(SubtreeOf(1)) = 3
  /\ SelfDuration(2) > 0 /\ SelfDuration(3) > 0
  /\ NodeOf(1).computedSubtreeMs = Round(SelfDuration(1) + SelfDuration(2) + SelfDuration(3))
  /\ NodeOf(1).computedSubtreeMs # NodeOf(1).subtreeMs

\* The included nodes whose childrenFiberIds list the fiber.
ListedUnder(fiberId) == { id \in NodeIds : fiberId \in ChildrenOf(id) }

\* The node names an included node as its parent and is listed under that
\* node and under no other.
LinksAgree(fiberId) ==
  /\ NodeOf(fiberId).parentFiberId \in NodeIds
  /\ ListedUnder(fiberId) = {NodeOf(fiberId).parentFiberId}

\* C35: in every per-pass flamegraph, each included node other than the
\* flamegraph root has a parentFiberId that is an included node, and it is
\* listed in the childrenFiberIds of that node and of no other node.
C35_ParentAndChildrenAgree ==
  Done => \A fiberId \in NodeIds \ {flamegraph.rootFiberId} : LinksAgree(fiberId)

\* ------------------------------------------------ classifier properties
Summarized == changeDescription.type = "object"

\* The categories of the record whose changed set is not empty, in the
\* order props, state, context, hooks.
ChangedCategories ==
  LET fields == changeDescription.fields
  IN  SelectSeq(<<"props", "state", "context", "hooks">>,
                LAMBDA category : NonEmptyArray(fields[category]))

\* C20: for a change record the classifier returns "mount" alone when
\* isFirstMount is true; otherwise the categories with a non-empty changed
\* set joined with '+' in the order props, state, context, hooks; and
\* "unknown" exactly when it is no first mount and all four sets are empty.
C20_MountElseCategoriesElseUnknown ==
  Summarized =>
    /\ summary = IF IsTrue(changeDescription.fields.isFirstMount) THEN "mount"
                 ELSE IF ChangedCategories = <<>> THEN "unknown"
                 ELSE Join(ChangedCategories)
    /\ summary = "unknown"
         <=> (~IsTrue(changeDescription.fields.isFirstMount) /\ ChangedCategories = <<>>)

\* ------------------------------------------------------ render reasons
MaxSamples == 3

\* commitUpdaterIDs: the finite ids of the updaters of the commit.
CommitUpdaterIDs(updaters) == SelectSeq(updaters, IsFinite)

UpdaterMatchedAnySummary(reasonSummary, fiberID, commitUpdaterIDs) ==
  IsFinite(fiberID) /\ Includes(commitUpdaterIDs, fiberID)

\* hasUnknownSummary && commitUpdaterIDs instanceof Set &&
\* Number.isFinite(fiberID) && commitUpdaterIDs.has(Number(fiberID))
UpdaterMatched(reasonSummary, fiberID, commitUpdaterIDs) ==
  /\ reasonSummary = "unknown"
  /\ IsFinite(fiberID)
  /\ Includes(commitUpdaterIDs, fiberID)

\* The fields of the result that the report reads; the hook details and
\* the changed keys are left out.
parseRenderReasonDetails(description, fiberID, commitUpdaterIDs) ==
  IF description.type # "object" THEN [type |-> "null"]
  ELSE LET reasonSummary == summarizeChangeDescription(description)
       IN  [type |-> "object",
            summary |-> reasonSummary,
            attributionStatus |->
              IF reasonSummary = "unknown" THEN "unknown" ELSE "known",
            inferredReason |->
              IF UpdaterMatched(reasonSummary, fiberID, commitUpdaterIDs)
              THEN "updater-match" ELSE Null]

\* ------------------------------------------------------------- hotspots
\* renderedComponent.whyRendered?.summary ?? null
ReasonSummary(whyRendered) ==
  IF whyRendered.type = "object" THEN whyRendered.summary ELSE Null

\* selfMs > 0 ? selfMs : subtreeMs
PrimaryMs(component) ==
  IF component.selfMs > 0 THEN component.selfMs ELSE component.subtreeMs

\* Lines 1821-1833.
CountReason(c, whyRendered) ==
  LET reasonSummary == ReasonSummary(whyRendered)
      counted == [c EXCEPT !.componentRenderSamples = @ + 1]
  IN  IF reasonSummary = Null THEN counted
      ELSE IF reasonSummary = "unknown"
      THEN [counted EXCEPT
              !.unknownRenderReasonSamples = @ + 1,
              !.unknownRenderReasonUpdaterMatches =
                 IF whyRendered.inferredReason = "updater-match" THEN @ + 1 ELSE @]
      ELSE [counted EXCEPT !.knownRenderReasonSamples = @ + 1]

\* hotspotMap.get(name) ?? { name, count: 0, totalMs: 0, ... }
AggregateOf(map, name) ==
  IF MapHas(map, name) THEN MapGet0(map, name)
  ELSE [name |-> name, count |-> 0, totalMs |-> 0,
        totalSelfMs |-> 0, totalSubtreeMs |-> 0]

AddSampleAlwaysSelf(aggregate, component) ==
  [aggregate EXCEPT
     !.count = @ + 1,
     !.totalMs = @ + component.selfMs,
     !.totalSelfMs = @ + component.selfMs,
     !.totalSubtreeMs = @ + component.subtreeMs]

\* Lines 1846-1849; the maxima and the reason counts of the aggregate are
\* not part of the hotspots list and are left out.
AddSample(aggregate, component) ==
  [aggregate EXCEPT
     !.count = @ + 1,
     !.totalMs = @ + PrimaryMs(component),
     !.totalSelfMs = @ + component.selfMs,
     !.totalSubtreeMs = @ + component.subtreeMs]

\* Lines 1910-1918 without the averages and the top reasons.
Hotspot(h) ==
  [name |-> h.name,
   count |-> h.count,
   totalMs |-> Round(h.totalMs),
   selfMs |-> Round(h.totalSelfMs),
   subtreeMs |-> Round(h.totalSubtreeMs)]

HotspotBeforeByTotalOnly(a, b) == b.totalMs < a.totalMs

\* The comparator of line 1924 is negative: a goes before b.
HotspotBefore(a, b) ==
  IF b.totalMs # a.totalMs THEN b.totalMs < a.totalMs ELSE b.count < a.count

\* Array.prototype.sort is stable: an entry goes after the entries that
\* the comparator does not put behind it.
RECURSIVE InsertHotspot(_, _)
InsertHotspot(sorted, h) ==
  IF sorted = <<>> THEN <<h>>
  ELSE IF HotspotBefore(h, Head(sorted)) THEN <<h>> \o sorted
  ELSE <<Head(sorted)>> \o InsertHotspot(Tail(sorted), h)

RECURSIVE SortHotspots(_)
SortHotspots(list) ==
  IF list = <<>> THEN <<>>
  ELSE InsertHotspot(SortHotspots(SubSeq(list, 1, Len(list) - 1)), list[Len(list)])

\* .slice(0, 25)
HotspotLimit == 25
Slice(list, limit) == SubSeq(list, 1, IF Len(list) < limit THEN Len(list) ELSE limit)

BuildHotspots(map) ==
  Slice(SortHotspots([n \in 1..Len(map) |-> Hotspot(map[n][2])]), HotspotLimit)

\* The rendered components of the commits: names, (selfMs, subtreeMs), the
\* fiber, its change description and the updaters of its commit.
HotspotNames == {"App", "Item"}
SampleTimings == {<<0, 0>>, <<2000, 3000>>, <<0, 3000>>}
SampleFibers == {1, 2}
ChangeOf(mount, props) ==
  Object([isFirstMount |-> mount, props |-> props, state |-> Undefined,
          context |-> Array(<<>>), hooks |-> Undefined, didHooksChange |-> Undefined])
SampleChanges ==
  {Undefined, ChangeOf(Boolean(FALSE), Array(<<>>)), ChangeOf(Undefined, Array(<<"a">>))}
SampleUpdaters == {<<NaN, 1>>}

HotspotInit ==
  /\ ReportIdle
  /\ FlameIdle
  /\ SummaryIdle
  /\ commitTree = [nodes |-> EmptyNodes, rootID |-> 0]
  /\ warningSet = {}
  /\ commitIndex = 0
  /\ pc = "analyse"
  /\ operations = <<>>
  /\ final = TRUE
  /\ i = 0
  /\ stringTable = <<>>
  /\ opCount = 0
  /\ applied = <<>>
  /\ withRecord = {}
  /\ unknownSeen = <<>>

exceptHotspot ==
  <<vars, flameVars, summaryVars, cadenceVars, durationVars, compareVars, toolVars>>

\* One turn of the loop of line 1805 for a rendered component of a commit.
AggregateSample ==
  /\ ~report.built
  /\ Len(samples) < MaxSamples
  /\ \E name \in HotspotNames, timing \in SampleTimings, fiberId \in SampleFibers,
        description \in SampleChanges, updaters \in SampleUpdaters :
       LET whyRendered ==
             parseRenderReasonDetails(description, fiberId, CommitUpdaterIDs(updaters))
           component == [fiberId |-> fiberId, name |-> name,
                         selfMs |-> timing[1], subtreeMs |-> timing[2],
                         whyRendered |-> whyRendered]
       IN  /\ samples' = Append(samples,
                                [component |-> component,
                                 commitUpdaterIDs |-> CommitUpdaterIDs(updaters)])
           /\ counters' = CountReason(counters, whyRendered)
           /\ hotspotMap' = MapSet(hotspotMap, name,
                                   AddSample(AggregateOf(hotspotMap, name), component))
  /\ UNCHANGED <<report, exceptHotspot>>

\* Lines 1909-1950: the hotspots list and the render-reason counters of
\* the report.
BuildReport ==
  /\ ~report.built
  /\ report' = [built |-> TRUE,
                hotspots |-> BuildHotspots(hotspotMap),
                renderReasons |->
                  [knownSamples |-> counters.knownRenderReasonSamples,
                   unknownSamples |-> counters.unknownRenderReasonSamples,
                   sampleCount |-> counters.knownRenderReasonSamples
                                     + counters.unknownRenderReasonSamples,
                   unknownWithUpdaterMatch |->
                     counters.unknownRenderReasonUpdaterMatches]]
  /\ UNCHANGED <<samples, hotspotMap, counters, exceptHotspot>>

HotspotNext ==
  \/ AggregateSample
  \/ BuildReport

HotspotSpec == HotspotInit /\ [][HotspotNext]_hotspotVars

\* --------------------------------------------------- hotspot properties
WhyRendered(n) == samples[n].component.whyRendered
HasSummary(n) == WhyRendered(n).type = "object"
UnknownSample(n) == HasSummary(n) /\ WhyRendered(n).summary = "unknown"
KnownSample(n) == HasSummary(n) /\ WhyRendered(n).summary # "unknown"
TaggedSample(n) == HasSummary(n) /\ WhyRendered(n).inferredReason = "updater-match"
InUpdaters(n) ==
  Includes(samples[n].commitUpdaterIDs, samples[n].component.fiberId)

SampleIndexes == 1..Len(samples)
UnknownCount == Cardinality({ n \in SampleIndexes : UnknownSample(n) })
KnownCount == Cardinality({ n \in SampleIndexes : KnownSample(n) })
TaggedCount == Cardinality({ n \in SampleIndexes : TaggedSample(n) })

\* C21: a rendered sample carries the inferred reason 'updater-match' if
\* and only if its summary is "unknown" and its fiber is among the
\* updaters of its commit; a sample with a known reason never carries it;
\* the counters of unknown, known and updater-matched samples, and the
\* report built from them, are the numbers of such samples.
C21_UpdaterMatchOnlyForUnknown ==
  /\ \A n \in SampleIndexes :
       /\ TaggedSample(n) <=> (UnknownSample(n) /\ InUpdaters(n))
       /\ KnownSample(n) => ~TaggedSample(n)
  /\ counters.unknownRenderReasonSamples = UnknownCount
  /\ counters.knownRenderReasonSamples = KnownCount
  /\ counters.unknownRenderReasonUpdaterMatches = TaggedCount
  /\ report.built =>
       /\ report.renderReasons.unknownSamples = UnknownCount
       /\ report.renderReasons.knownSamples = KnownCount
       /\ report.renderReasons.unknownWithUpdaterMatch = TaggedCount

\* A report over a tagged sample, an unknown sample outside the updaters
\* and a sample with a known reason whose fiber is an updater.
C21_Witness ==
  /\ report.built
  /\ \E a, b, c \in SampleIndexes :
       /\ TaggedSample(a)
       /\ UnknownSample(b) /\ ~InUpdaters(b)
       /\ KnownSample(c) /\ InUpdaters(c)
  /\ report.renderReasons.unknownWithUpdaterMatch = 1
  /\ report.renderReasons.unknownSamples = 2

SamplesNamed(name) == { n \in SampleIndexes : samples[n].component.name = name }

\* The value a sample adds to a metric: its selfMs, its subtreeMs, or as
\* "totalMs" its selfMs when positive and its subtreeMs otherwise.
ValueOf(component, metric) ==
  IF metric = "totalMs"
  THEN (IF component.selfMs > 0 THEN component.selfMs ELSE component.subtreeMs)
  ELSE component[metric]

RECURSIVE SumSamples(_, _)
SumSamples(indexes, metric) ==
  IF indexes = {} THEN 0
  ELSE LET n == CHOOSE x \in indexes : TRUE
       IN  ValueOf(samples[n].component, metric) + SumSamples(indexes \ {n}, metric)

HotspotNamesOf(list) == { list[n].name : n \in 1..Len(list) }

\* C22: the hotspots are grouped by name over all commits: an entry
\* counts the rendered samples of its name, its selfMs and subtreeMs are
\* the sums of theirs and its totalMs the sum of their selfMs when
\* positive and of their subtreeMs otherwise; each name has one entry at
\* most, and a name that was never rendered has none.
C22_HotspotsGroupSamplesByName ==
  report.built =>
    /\ \A n \in 1..Len(report.hotspots) :
         LET h == report.hotspots[n]
             mine == SamplesNamed(h.name)
         IN  /\ mine # {}
             /\ h.count = Cardinality(mine)
             /\ h.selfMs = SumSamples(mine, "selfMs")
             /\ h.subtreeMs = SumSamples(mine, "subtreeMs")
             /\ h.totalMs = SumSamples(mine, "totalMs")
    /\ \A m, n \in 1..Len(report.hotspots) :
         report.hotspots[m].name = report.hotspots[n].name => m = n
    /\ Len(report.hotspots) < HotspotLimit =>
         HotspotNamesOf(report.hotspots)
           = { samples[n].component.name : n \in SampleIndexes }

\* "App" rendered twice, once with a self time and once with a subtree
\* time only; "Item" never rendered.
C22_Witness ==
  /\ report.built
  /\ HotspotNamesOf(report.hotspots) = {"App"}
  /\ report.hotspots[1].count = 2
  /\ report.hotspots[1].totalMs = 5000
  /\ report.hotspots[1].selfMs = 2000
  /\ report.hotspots[1].subtreeMs = 6000

\* C23: the hotspots list is sorted by totalMs descending and, among
\* equal totalMs, by count descending.
C23_HotspotsSortedByTotalThenCount ==
  report.built =>
    \A n \in 1..(Len(report.hotspots) - 1) :
      LET a == report.hotspots[n]
          b == report.hotspots[n + 1]
      IN  \/ a.totalMs > b.totalMs
          \/ (a.totalMs = b.totalMs /\ a.count >= b.count)

\* Two names with equal totalMs, the one aggregated first with the
\* smaller count: the sort has put it second.
C23_Witness ==
  /\ report.built
  /\ Len(report.hotspots) = 2
  /\ report.hotspots[1].totalMs = report.hotspots[2].totalMs
  /\ report.hotspots[1].totalMs > 0
  /\ report.hotspots[1].count > report.hotspots[2].count
  /\ hotspotMap[1][1] = report.hotspots[2].name

\* -------------------------------------------------------------- cadence
\* Timestamps and deltas are in thousandths of a millisecond, as the
\* durations are; the timestamps are whole milliseconds, so that the halves
\* and fifths the detector takes are exact.
MaxTimestamps == 5

Abs(x) == IF x < 0 THEN 0 - x ELSE x

\* Math.round(numerator / denominator) for a positive denominator.
RoundDiv(numerator, denominator) ==
  (2 * numerator + denominator) \div (2 * denominator)

\* [...values].sort((a, b) => a - b)
RECURSIVE InsertAscending(_, _)
InsertAscending(sorted, x) ==
  IF sorted = <<>> THEN <<x>>
  ELSE IF x < Head(sorted) THEN <<x>> \o sorted
  ELSE <<Head(sorted)>> \o InsertAscending(Tail(sorted), x)

RECURSIVE SortAscending(_)
SortAscending(values) ==
  IF values = <<>> THEN <<>>
  ELSE InsertAscending(SortAscending(SubSeq(values, 1, Len(values) - 1)),
                       values[Len(values)])

\* median(values): null, written NaN here, for no values.
median(values) ==
  IF values = <<>> THEN NaN
  ELSE LET sorted == SortAscending(values)
           mid == Len(sorted) \div 2
       IN  IF Len(sorted) % 2 = 0
           THEN (sorted[mid] + sorted[mid + 1]) \div 2
           ELSE sorted[mid + 1]

\* sorted[i] - sorted[i - 1] for every i from 1 on.
Deltas(sorted) == [n \in 1..(Len(sorted) - 1) |-> sorted[n + 1] - sorted[n]]

ToleranceOfForty(medianDeltaMs) == 40 * 1000

\* Math.max(40, (medianDeltaMs || 0) * 0.2)
Tolerance(medianDeltaMs) == Max(40 * 1000, medianDeltaMs \div 5)

\* The regularity is kept as the pair of the regular deltas and of all
\* deltas; it is reported rounded to thousandths.
summarizeCadence(timestamps) ==
  IF Len(timestamps) < 4
  THEN [samples |-> Len(timestamps), medianDeltaMs |-> NaN, regularity |-> NaN,
        likelyIntervalChurn |-> FALSE]
  ELSE LET sorted == SortAscending(timestamps)
           deltas == Deltas(sorted)
           medianDeltaMs == median(deltas)
           tolerance == Tolerance(medianDeltaMs)
           regularMatches ==
             Len(SelectSeq(deltas, LAMBDA d : Abs(d - medianDeltaMs) <= tolerance))
       IN  [samples |-> Len(sorted),
            medianDeltaMs |-> Round(medianDeltaMs),
            regularity |-> RoundDiv(regularMatches * 1000, Len(deltas)),
            likelyIntervalChurn |->
              /\ medianDeltaMs # 0
              /\ medianDeltaMs >= 700 * 1000
              /\ medianDeltaMs <= 1300 * 1000
              /\ 2 * regularMatches >= Len(deltas)
              /\ Len(deltas) >= 3]

\* The timestamps of the commits of an export, in milliseconds.
TimestampValues == {0, 700, 1000, 1300, 2000, 2600, 3000}

RECURSIVE TimestampLists(_)
TimestampLists(length) ==
  IF length = 0 THEN {<<>>}
  ELSE LET shorter == TimestampLists(length - 1)
       IN  shorter \cup
           { Append(list, ms * 1000) :
               list \in { l \in shorter : Len(l) = length - 1 }, ms \in TimestampValues }

\* Ten timestamps 1000 ms apart, not in order.
TenSpaced == [n \in 1..10 |-> ((7 * n) % 10) * 1000 * 1000]

\* Four timestamps 1000 ms apart after a first delta of 1240 ms, and the
\* same after one of 1250 ms.
CadenceInputs ==
  TimestampLists(MaxTimestamps)
    \cup {TenSpaced,
          <<0, 1240000, 2240000, 3240000, 4240000>>,
          <<0, 1250000, 2250000, 3250000, 4250000>>}

CadenceInit ==
  /\ ReportIdle
  /\ FlameIdle
  /\ SummaryIdle
  /\ commitTree = [nodes |-> EmptyNodes, rootID |-> 0]
  /\ warningSet = {}
  /\ commitIndex = 0
  /\ pc = "analyse"
  /\ operations = <<>>
  /\ final = TRUE
  /\ i = 0
  /\ stringTable = <<>>
  /\ opCount = 0
  /\ applied = <<>>
  /\ withRecord = {}
  /\ unknownSeen = <<>>

exceptCadence ==
  <<vars, flameVars, summaryVars, hotspotVars, durationVars, compareVars, toolVars>>

\* The call of summarizeCadence on the timestamps of a report.
SummarizeCadence ==
  /\ cadence = <<>>
  /\ \E timestamps \in CadenceInputs :
       /\ timestampsMs' = timestamps
       /\ cadence' = summarizeCadence(timestamps)
  /\ UNCHANGED exceptCadence

CadenceNext == SummarizeCadence

CadenceSpec == CadenceInit /\ [][CadenceNext]_cadenceVars

\* --------------------------------------------------- cadence properties
CadenceCalled == cadence # <<>>

\* The k-th smallest of the values, by rank.
Ranked(values, k) ==
  CHOOSE v \in Elements(values) :
    /\ Cardinality({ n \in 1..Len(values) : values[n] < v }) < k
    /\ Cardinality({ n \in 1..Len(values) : values[n] <= v }) >= k

\* The deltas between the timestamps next to each other in time.
ExpectedDeltas ==
  [k \in 1..(Len(timestampsMs) - 1) |->
     Ranked(timestampsMs, k + 1) - Ranked(timestampsMs, k)]

\* Twice the median of the deltas.
TwiceMedian(deltas) ==
  IF Len(deltas) % 2 = 1 THEN 2 * Ranked(deltas, (Len(deltas) + 1) \div 2)
  ELSE Ranked(deltas, Len(deltas) \div 2) + Ranked(deltas, Len(deltas) \div 2 + 1)

\* The deltas within max(40 ms, a fifth of the median) of the median.
RegularDeltas(deltas) ==
  { n \in 1..Len(deltas) :
      \/ 2 * Abs(2 * deltas[n] - TwiceMedian(deltas)) <= 2 * 2 * 40 * 1000
      \/ 5 * 2 * Abs(2 * deltas[n] - TwiceMedian(deltas)) <= 2 * TwiceMedian(deltas) }

\* C24: for timestamps in any order, the detector reports the median of
\* the deltas between timestamps consecutive in time, the fraction of the
\* deltas within max(40, 0.2 x median) of it, and periodic churn if and
\* only if there are at least 3 deltas, the median is from 700 to 1300 and
\* the fraction at least a half; timestamps exactly 1000 apart give
\* median 1000, regularity 1 and churn.
C24_CadenceFromSortedDeltas ==
  (CadenceCalled /\ Len(timestampsMs) >= 2) =>
    LET deltas == ExpectedDeltas
        regular == Cardinality(RegularDeltas(deltas))
    IN  /\ cadence.likelyIntervalChurn
             <=> /\ Len(deltas) >= 3
                 /\ 700 * 1000 * 2 <= TwiceMedian(deltas)
                 /\ TwiceMedian(deltas) <= 1300 * 1000 * 2
                 /\ 2 * regular >= Len(deltas)
        /\ Len(deltas) >= 3 =>
             /\ 2 * cadence.medianDeltaMs = TwiceMedian(deltas)
             /\ cadence.regularity = RoundDiv(regular * 1000, Len(deltas))
        /\ (\A n \in 1..Len(deltas) : deltas[n] = 1000 * 1000 /\ Len(deltas) >= 3) =>
             /\ cadence.medianDeltaMs = 1000 * 1000
             /\ cadence.regularity = 1000
             /\ cadence.likelyIntervalChurn

\* The ten timestamps 1000 ms apart, given out of order.
C24_Witness ==
  /\ CadenceCalled
  /\ timestampsMs = TenSpaced
  /\ timestampsMs[1] > timestampsMs[2]
  /\ cadence.samples = 10
  /\ cadence.medianDeltaMs = 1000 * 1000
  /\ cadence.regularity = 1000
  /\ cadence.likelyIntervalChurn

\* ------------------------------------------------------ commit duration
\* A number of the export, NaN for one that is not finite.
Number(value) == [type |-> "number", value |-> value]

\* Number.isFinite(value)
IsFiniteNumber(value) == value.type = "number" /\ IsFinite(value.value)

\* pickNumber(obj, keys): the first finite number among the keys, else
\* null, written NaN here.
RECURSIVE pickNumber(_, _)
pickNumber(obj, keys) ==
  IF keys = <<>> THEN NaN
  ELSE IF IsFiniteNumber(obj[Head(keys)]) THEN obj[Head(keys)].value
  ELSE pickNumber(obj, Tail(keys))

\* normalizePairEntries on the entries as the export writes them: pairs
\* [key, value], or keys and values in turn in one flat array.
RECURSIVE PairEntries(_)
PairEntries(items) ==
  IF items = <<>> THEN <<>>
  ELSE LET item == Head(items)
       IN  IF item.type = "array" /\ Len(item.items) >= 2
           THEN (IF IsFinite(item.items[1])
                 THEN << <<item.items[1], item.items[2]>> >> ELSE <<>>)
                \o PairEntries(Tail(items))
           ELSE IF /\ IsFiniteNumber(item)
                   /\ Len(items) >= 2
                   /\ IsFiniteNumber(items[2])
           THEN << <<item.value, items[2].value>> >> \o PairEntries(Tail(Tail(items)))
           ELSE PairEntries(Tail(items))

\* if (!Array.isArray(value)) return []
PairsOf(value) == IF value.type = "array" THEN PairEntries(value.items) ELSE <<>>

\* .reduce((sum, pair) => sum + (Number.isFinite(pair[1]) ? pair[1] : 0), 0)
RECURSIVE SumPairValues(_)
SumPairValues(pairs) ==
  IF pairs = <<>> THEN 0
  ELSE (IF IsFinite(Head(pairs)[2]) THEN Head(pairs)[2] ELSE 0)
       + SumPairValues(Tail(pairs))

RECURSIVE SumFinite(_)
SumFinite(items) ==
  IF items = <<>> THEN 0
  ELSE (IF IsFiniteNumber(Head(items)) THEN Head(items).value ELSE 0)
       + SumFinite(Tail(items))

\* sumNumericArray(values): the elements that are finite numbers, added.
sumNumericArray(values) ==
  IF values.type # "array" THEN 0 ELSE SumFinite(values.items)

\* Lines 1723-1737: null is written NaN.
ResolvedDuration(c) ==
  LET picked == pickNumber(c, <<"duration", "actualDuration", "commitDuration">>)
      fiberSelfTotal == SumPairValues(PairsOf(c.fiberSelfDurations))
      fiberActual == sumNumericArray(c.fiberActualDurations)
  IN  IF IsFinite(picked) THEN picked
      ELSE IF fiberSelfTotal > 0 THEN fiberSelfTotal
      ELSE IF fiberActual > 0 THEN fiberActual
      ELSE picked

\* Line 1787.
CommitDurationMs(c) ==
  Round(IF IsFinite(ResolvedDuration(c)) THEN ResolvedDuration(c) ELSE 0)

\* The commits of an export: with and without the duration fields, with
\* duration lists written as pairs or flat.
Pair(key, value) == Array(<<key, value>>)
ExplicitDurations == {Undefined, Number(0), Number(4000)}
ActualDurationFields == {Undefined, Number(7000)}
CommitDurationFields == {Undefined, Number(9000)}
SelfDurationLists ==
  {Undefined,
   Array(<<>>),
   Array(<<Pair(1, 1000), Pair(2, 2000)>>),
   Array(<<Pair(1, 0)>>),
   Array(<<Number(1), Number(1000)>>)}
ActualDurationLists ==
  {Undefined,
   Array(<<>>),
   Array(<<Pair(1, 5000)>>),
   Array(<<Pair(1, 3000), Pair(2, 2000)>>),
   Array(<<Number(1), Number(5000)>>)}

DurationInit ==
  /\ ReportIdle
  /\ FlameIdle
  /\ SummaryIdle
  /\ commitTree = [nodes |-> EmptyNodes, rootID |-> 0]
  /\ warningSet = {}
  /\ commitIndex = 0
  /\ pc = "analyse"
  /\ operations = <<>>
  /\ final = TRUE
  /\ i = 0
  /\ stringTable = <<>>
  /\ opCount = 0
  /\ applied = <<>>
  /\ withRecord = {}
  /\ unknownSeen = <<>>

exceptDuration ==
  <<vars, flameVars, summaryVars, hotspotVars, cadenceVars, compareVars, toolVars>>

\* The duration of one commit is resolved and reported.
ResolveDuration ==
  /\ commit = <<>>
  /\ \E duration \in ExplicitDurations, actualDuration \in ActualDurationFields,
        commitDuration \in CommitDurationFields,
        selfDurations \in SelfDurationLists, actualDurations \in ActualDurationLists :
       /\ commit' = [duration |-> duration,
                     actualDuration |-> actualDuration,
                     commitDuration |-> commitDuration,
                     fiberSelfDurations |-> selfDurations,
                     fiberActualDurations |-> actualDurations]
       /\ durationMs' = CommitDurationMs(commit')
  /\ UNCHANGED exceptDuration

DurationNext == ResolveDuration

DurationSpec == DurationInit /\ [][DurationNext]_durationVars

\* -------------------------------------------------- duration properties
\* C25: the duration of a commit is its explicit duration when it has one;
\* otherwise the sum of its self durations when positive; otherwise the
\* sum of the durations, not of the ids, of its map of actual durations;
\* otherwise zero.
C25_DurationFallbackChain ==
  commit # <<>> =>
    LET explicit == pickNumber(commit, <<"duration", "actualDuration", "commitDuration">>)
        selfTotal == SumPairValues(PairsOf(commit.fiberSelfDurations))
        actualTotal == SumPairValues(PairsOf(commit.fiberActualDurations))
    IN  durationMs = IF IsFinite(explicit) THEN Round(explicit)
                     ELSE IF selfTotal > 0 THEN Round(selfTotal)
                     ELSE IF actualTotal > 0 THEN Round(actualTotal)
                     ELSE 0

\* ------------------------------------------------------- compareReports
\* round(pctDelta(before, after)) of lines 706-709 and 742, in hundredths
\* of a percent: Math.round rounds a half upwards.
PctDelta(beforeValue, afterValue) ==
  IF ~IsFinite(beforeValue) \/ beforeValue = 0 THEN 0
  ELSE RoundDiv((afterValue - beforeValue) * 100 * 100, beforeValue)

\* hotspotMap(report): the hotspots by name, the last one of a name kept.
RECURSIVE HotspotsByName(_, _)
HotspotsByName(map, hotspots) ==
  IF hotspots = <<>> THEN map
  ELSE HotspotsByName(MapSet(map, Head(hotspots).name, Head(hotspots)), Tail(hotspots))

\* new Set([...beforeMap.keys(), ...afterMap.keys()])
NamesOf(beforeMap, afterMap) ==
  [n \in 1..Len(beforeMap) |-> beforeMap[n][1]]
  \o SelectSeq([n \in 1..Len(afterMap) |-> afterMap[n][1]],
               LAMBDA name : ~MapHas(beforeMap, name))

\* beforeMap.get(name) ?? { totalMs: 0, count: 0 }
HotspotOr0(map, name) ==
  IF MapHas(map, name) THEN map[CHOOSE n \in MapIndex(map, name) : TRUE][2]
  ELSE [name |-> name, totalMs |-> 0, count |-> 0]

\* Lines 736-746.
HotspotDiff(name, b, a) ==
  [name |-> name,
   beforeTotalMs |-> Round(b.totalMs),
   afterTotalMs |-> Round(a.totalMs),
   deltaMs |-> Round(a.totalMs - b.totalMs),
   deltaPct |-> PctDelta(b.totalMs, a.totalMs),
   beforeCount |-> b.count,
   afterCount |-> a.count,
   countDelta |-> a.count - b.count]

HotspotDiffs(beforeMap, afterMap) ==
  LET names == NamesOf(beforeMap, afterMap)
  IN  [n \in 1..Len(names) |->
         HotspotDiff(names[n], HotspotOr0(beforeMap, names[n]), HotspotOr0(afterMap, names[n]))]

DeltaMsOf(d, hasDurationSignal) == d.deltaMs

\* The field the top lists filter and sort by.
DeltaOf(d, hasDurationSignal) ==
  IF hasDurationSignal THEN d.deltaMs ELSE d.countDelta

\* A stable sort, the smallest key first.
RECURSIVE InsertDiff(_, _, _, _)
InsertDiff(sorted, d, hasDurationSignal, sign) ==
  IF sorted = <<>> THEN <<d>>
  ELSE IF sign * DeltaOf(d, hasDurationSignal) < sign * DeltaOf(Head(sorted), hasDurationSignal)
  THEN <<d>> \o sorted
  ELSE <<Head(sorted)>> \o InsertDiff(Tail(sorted), d, hasDurationSignal, sign)

RECURSIVE SortDiffs(_, _, _)
SortDiffs(list, hasDurationSignal, sign) ==
  IF list = <<>> THEN <<>>
  ELSE InsertDiff(SortDiffs(SubSeq(list, 1, Len(list) - 1), hasDurationSignal, sign),
                  list[Len(list)], hasDurationSignal, sign)

TopLimit == 10

TopImprovementsUncut(diffs, hasDurationSignal) ==
  SortDiffs(SelectSeq(diffs, LAMBDA d : DeltaOf(d, hasDurationSignal) < 0),
            hasDurationSignal, 1)

\* Lines 766-774.
TopImprovements(diffs, hasDurationSignal) ==
  Slice(SortDiffs(SelectSeq(diffs, LAMBDA d : DeltaOf(d, hasDurationSignal) < 0),
                  hasDurationSignal, 1),
        TopLimit)

\* Lines 776-784.
TopRegressions(diffs, hasDurationSignal) ==
  Slice(SortDiffs(SelectSeq(diffs, LAMBDA d : DeltaOf(d, hasDurationSignal) > 0),
                  hasDurationSignal, -1),
        TopLimit)

PrimaryNotWorse(beforePrimary, afterPrimary) == afterPrimary <= beforePrimary

PrimaryImproved(beforePrimary, afterPrimary) == afterPrimary < beforePrimary

PrimaryRegressed(beforePrimary, afterPrimary) == afterPrimary > beforePrimary

CadenceImproved(cadenceBefore, cadenceAfter) ==
  ~cadenceBefore \/ (cadenceBefore /\ ~cadenceAfter)

CadenceRegressed(cadenceBefore, cadenceAfter) == ~cadenceBefore /\ cadenceAfter

Verdict(beforePrimary, afterPrimary, cadenceBefore, cadenceAfter) ==
  IF PrimaryImproved(beforePrimary, afterPrimary) /\ CadenceImproved(cadenceBefore, cadenceAfter)
  THEN "improved"
  ELSE IF \/ PrimaryRegressed(beforePrimary, afterPrimary)
          \/ CadenceRegressed(cadenceBefore, cadenceAfter)
  THEN "regressed"
  ELSE "mixed"

\* compareReports(before, after); hotspotDiffs is its local of that name.
compareReports(b, a) ==
  LET beforeReactTime == b.totals.reactTimeMs
      afterReactTime == a.totals.reactTimeMs
      beforeComponentTrackEvents == b.totals.reactComponentTrackEvents
      afterComponentTrackEvents == a.totals.reactComponentTrackEvents
      hotspotDiffs == HotspotDiffs(HotspotsByName(<<>>, b.hotspots),
                                   HotspotsByName(<<>>, a.hotspots))
      cadenceBefore == b.cadence.likelyIntervalChurn = TRUE
      cadenceAfter == a.cadence.likelyIntervalChurn = TRUE
      hasDurationSignal == beforeReactTime > 0 \/ afterReactTime > 0
      beforePrimary == IF hasDurationSignal THEN beforeReactTime ELSE beforeComponentTrackEvents
      afterPrimary == IF hasDurationSignal THEN afterReactTime ELSE afterComponentTrackEvents
  IN  [before |-> [reactTimeMs |-> Round(beforeReactTime),
                   componentTrackEvents |-> beforeComponentTrackEvents,
                   intervalChurnLikely |-> cadenceBefore],
       after |-> [reactTimeMs |-> Round(afterReactTime),
                  componentTrackEvents |-> afterComponentTrackEvents,
                  intervalChurnLikely |-> cadenceAfter],
       hotspotDiffs |-> hotspotDiffs,
       comparedUsing |-> IF hasDurationSignal THEN "react-time-ms" ELSE "component-track-events",
       hotspotRanking |-> IF hasDurationSignal THEN "delta-ms" ELSE "count-delta",
       topImprovements |-> TopImprovements(hotspotDiffs, hasDurationSignal),
       topRegressions |-> TopRegressions(hotspotDiffs, hasDurationSignal),
       verdict |-> Verdict(beforePrimary, afterPrimary, cadenceBefore, cadenceAfter)]

\* The reports of the analyzers: without durations the time of a report is
\* the sum of its hotspots (part_005, line 1870), so it is zero exactly when
\* they all are.  Times are in thousandths of a millisecond.
ReportOf(reactTimeMs, events, churn, hotspots) ==
  [totals |-> [reactTimeMs |-> reactTimeMs, reactComponentTrackEvents |-> events],
   cadence |-> [likelyIntervalChurn |-> churn],
   hotspots |-> hotspots]

HotspotOf(name, totalMs, count) == [name |-> name, totalMs |-> totalMs, count |-> count]

CountedHotspots ==
  {<<>>,
   <<HotspotOf("App", 0, 4)>>,
   <<HotspotOf("Item", 0, 2), HotspotOf("App", 0, 2)>>}

TimedHotspots ==
  {<<>>,
   <<HotspotOf("App", 1200, 4)>>,
   <<HotspotOf("App", 400, 4), HotspotOf("Item", 300, 1)>>}

ReportEvents == {2, 4}

\* Reports with more hotspots than a top list holds.
ManyNames == <<"A", "B", "C", "D", "E", "F", "G", "H", "I", "J", "K">>

ManyTimed(k) == [n \in 1..Len(ManyNames) |-> HotspotOf(ManyNames[n], 100 * k * n, n)]

ManyCounted(k) == [n \in 1..Len(ManyNames) |-> HotspotOf(ManyNames[n], 0, k * n)]

Reports ==
  {ReportOf(0, events, churn, hotspots) :
     events \in ReportEvents, churn \in BOOLEAN, hotspots \in CountedHotspots}
  \cup {ReportOf(reactTimeMs, events, churn, hotspots) :
          reactTimeMs \in {400, 1200}, events \in ReportEvents,
          churn \in BOOLEAN, hotspots \in TimedHotspots}
  \cup {ReportOf(1200, 4, FALSE, ManyTimed(k)) : k \in 1..2}
  \cup {ReportOf(0, 4, FALSE, ManyCounted(k)) : k \in 1..2}

CompareInit ==
  /\ ReportIdle
  /\ FlameIdle
  /\ SummaryIdle
  /\ commitTree = [nodes |-> EmptyNodes, rootID |-> 0]
  /\ warningSet = {}
  /\ commitIndex = 0
  /\ pc = "analyse"
  /\ operations = <<>>
  /\ final = TRUE
  /\ i = 0
  /\ stringTable = <<>>
  /\ opCount = 0
  /\ applied = <<>>
  /\ withRecord = {}
  /\ unknownSeen = <<>>

exceptCompare ==
  <<vars, flameVars, summaryVars, hotspotVars, cadenceVars, durationVars, toolVars>>

\* Two reports are compared.
Compare ==
  /\ comparison = <<>>
  /\ summaryDiff = <<>>
  /\ \E b \in Reports, a \in Reports :
       /\ beforeReport' = b
       /\ afterReport' = a
       /\ comparison' = compareReports(b, a)
  /\ UNCHANGED <<beforeSummary, afterSummary, summaryDiff>>
  /\ UNCHANGED exceptCompare

\* ---------------------------------------------------- compareSummaries
\* x || 0
OrZero(x) == IF IsFinite(x) THEN x ELSE 0

\* byName.get(name) || {...}
NewAggregate(name) ==
  [componentName |-> name, renderCount |-> 0, totalSelfMs |-> 0,
   totalSubtreeMs |-> 0, maxSubtreeMs |-> 0, commitIndices |-> <<>>]

AggregateOr(byName, name) ==
  IF MapHas(byName, name) THEN byName[CHOOSE n \in MapIndex(byName, name) : TRUE][2]
  ELSE NewAggregate(name)

\* Lines 6-26 of compare.js for one component of a commit.
AddComponent(byName, index, component) ==
  LET name == IF component.componentName = "" THEN "Unknown" ELSE component.componentName
      aggregate == AggregateOr(byName, name)
  IN  MapSet(byName, name,
        [componentName |-> name,
         renderCount |-> aggregate.renderCount + 1,
         totalSelfMs |-> aggregate.totalSelfMs + OrZero(component.selfMs),
         totalSubtreeMs |-> aggregate.totalSubtreeMs + OrZero(component.subtreeMs),
         maxSubtreeMs |-> Max(aggregate.maxSubtreeMs, OrZero(component.subtreeMs)),
         commitIndices |-> Append(aggregate.commitIndices, index)])

RECURSIVE AddComponents(_, _, _)
AddComponents(byName, index, components) ==
  IF components = <<>> THEN byName
  ELSE AddComponents(AddComponent(byName, index, Head(components)), index, Tail(components))

RECURSIVE AddCommits(_, _)
AddCommits(byName, commits) ==
  IF commits = <<>> THEN byName
  ELSE AddCommits(AddComponents(byName, Head(commits).index, Head(commits).components),
                  Tail(commits))

aggregateByComponentName(s) == AddCommits(<<>>, s.commits)

\* Lines 52-88 of compare.js; an absent side has no commitIndices.
ComponentDiff(name, b, a) ==
  [componentName |-> name,
   before |-> b,
   after |-> a,
   deltaRenderCount |-> a.renderCount - b.renderCount,
   deltaTotalSelfMs |-> a.totalSelfMs - b.totalSelfMs,
   deltaTotalSubtreeMs |-> a.totalSubtreeMs - b.totalSubtreeMs,
   classification |->
     IF a.totalSubtreeMs - b.totalSubtreeMs < 0 THEN "improved"
     ELSE IF a.totalSubtreeMs - b.totalSubtreeMs > 0 THEN "regressed"
     ELSE "unchanged"]

AbsentAggregate(name) ==
  [componentName |-> name, renderCount |-> 0, totalSelfMs |-> 0,
   totalSubtreeMs |-> 0, maxSubtreeMs |-> 0]

SideAggregate(byName, name) ==
  IF MapHas(byName, name) THEN byName[CHOOSE n \in MapIndex(byName, name) : TRUE][2]
  ELSE AbsentAggregate(name)

ComponentDiffs(beforeByName, afterByName) ==
  LET allNames == NamesOf(beforeByName, afterByName)
  IN  [n \in 1..Len(allNames) |->
         ComponentDiff(allNames[n], SideAggregate(beforeByName, allNames[n]),
                       SideAggregate(afterByName, allNames[n]))]

\* The three comparators of compare.js, as the key that sorts ascending.
ComponentKey(d, order) ==
  IF order = "magnitude" THEN -Abs(d.deltaTotalSubtreeMs)
  ELSE IF order = "regressions" THEN -d.deltaTotalSubtreeMs
  ELSE d.deltaTotalSubtreeMs

\* Array.prototype.sort is stable: an entry comes after the entries of a
\* smaller key and after the earlier entries of its own key.
RankOf(list, n, order) ==
  Cardinality({m \in 1..Len(list) :
                 \/ ComponentKey(list[m], order) < ComponentKey(list[n], order)
                 \/ ComponentKey(list[m], order) = ComponentKey(list[n], order) /\ m <= n})

SortComponents(list, order) ==
  [k \in 1..Len(list) |-> list[CHOOSE n \in 1..Len(list) : RankOf(list, n, order) = k]]

SummaryTopLimit == 15

SummaryTopUncut(components, order) ==
  SortComponents(SelectSeq(components,
                   LAMBDA d : IF order = "regressions" THEN d.deltaTotalSubtreeMs > 0
                              ELSE d.deltaTotalSubtreeMs < 0),
                 order)

\* Lines 113-120 of compare.js.
SummaryTop(components, order) ==
  Slice(SortComponents(SelectSeq(components,
                         LAMBDA d : IF order = "regressions" THEN d.deltaTotalSubtreeMs > 0
                                    ELSE d.deltaTotalSubtreeMs < 0),
                       order),
        SummaryTopLimit)

compareSummaries(b, a) ==
  LET components == SortComponents(ComponentDiffs(aggregateByComponentName(b),
                                                  aggregateByComponentName(a)),
                                   "magnitude")
  IN  [components |-> components,
       topRegressions |-> SummaryTop(components, "regressions"),
       topImprovements |-> SummaryTop(components, "improvements")]

\* Summaries of one or two commits, and summaries with more components
\* than a top list holds.
ComponentOf(name, selfMs, subtreeMs) ==
  [componentName |-> name, selfMs |-> selfMs, subtreeMs |-> subtreeMs]

CommitOf(index, components) == [index |-> index, components |-> components]

SummaryNames ==
  <<"A", "B", "C", "D", "E", "F", "G", "H", "I", "J", "K", "L", "M", "N", "O", "P">>

ManyComponents(k) ==
  [n \in 1..Len(SummaryNames) |-> ComponentOf(SummaryNames[n], k * n, 10 * k * n)]

Summaries ==
  {[commits |-> commits] :
     commits \in
       {<<>>,
        <<CommitOf(0, <<>>)>>,
        <<CommitOf(0, <<ComponentOf("App", 1, 3), ComponentOf("Item", 1, 1)>>)>>,
        <<CommitOf(0, <<ComponentOf("App", 1, 2)>>),
          CommitOf(1, <<ComponentOf("App", 1, 2), ComponentOf("", 1, 1)>>)>>,
        <<CommitOf(0, <<ComponentOf("Item", 2, 2), ComponentOf("App", NaN, NaN)>>)>>,
        <<CommitOf(0, <<ComponentOf("App", 1, 1), ComponentOf("Item", 2, 3),
                        ComponentOf("List", 1, 5)>>)>>,
        <<CommitOf(0, <<ComponentOf("List", 1, 1)>>),
          CommitOf(1, <<ComponentOf("Item", 1, 1)>>)>>,
        <<CommitOf(0, ManyComponents(1))>>,
        <<CommitOf(0, ManyComponents(2))>>,
        <<CommitOf(0, ManyComponents(3))>>}}

\* Two summaries are compared.
CompareSummaries ==
  /\ comparison = <<>>
  /\ summaryDiff = <<>>
  /\ \E b \in Summaries, a \in Summaries :
       /\ beforeSummary' = b
       /\ afterSummary' = a
       /\ summaryDiff' = compareSummaries(b, a)
  /\ UNCHANGED <<beforeReport, afterReport, comparison>>
  /\ UNCHANGED exceptCompare

CompareNext == Compare \/ CompareSummaries

CompareSpec == CompareInit /\ [][CompareNext]_compareVars

\* ------------------------------------------------ comparator properties
Compared == comparison # <<>>

CarriesDuration(r) ==
  \/ r.totals.reactTimeMs > 0
  \/ \E n \in 1..Len(r.hotspots) : r.hotspots[n].totalMs > 0

DurationSignal == CarriesDuration(beforeReport) \/ CarriesDuration(afterReport)

\* The total of a report on the primary metric of the comparison.
Primary(r) ==
  IF DurationSignal THEN r.totals.reactTimeMs ELSE r.totals.reactComponentTrackEvents

\* The metric that the label of the comparison names.
LabelledTotal(r) ==
  IF comparison.comparedUsing = "react-time-ms" THEN r.totals.reactTimeMs
  ELSE r.totals.reactComponentTrackEvents

LabelledDelta(d) ==
  IF comparison.comparedUsing = "react-time-ms" THEN d.afterTotalMs - d.beforeTotalMs
  ELSE d.afterCount - d.beforeCount

DiffsOf(list) == {list[n] : n \in 1..Len(list)}

\* The list holds the diffs of the set with the largest change on the
\* labelled metric, all of them when they fit.
TopOf(list, diffs) ==
  /\ DiffsOf(list) \subseteq diffs
  /\ Len(list) = Cardinality(DiffsOf(list))
  /\ Len(list) = Min(TopLimit, Cardinality(diffs))
  /\ \A d \in diffs \ DiffsOf(list) :
       \A e \in DiffsOf(list) : Abs(LabelledDelta(d)) <= Abs(LabelledDelta(e))

ChurnBefore == beforeReport.cadence.likelyIntervalChurn

ChurnAfter == afterReport.cadence.likelyIntervalChurn

ChurnAppeared == ~ChurnBefore /\ ChurnAfter

\* C26: the label names duration exactly when a report carries positive
\* duration; the verdict follows the totals of the labelled metric, and
\* topImprovements and topRegressions hold exactly the diffs that fell and
\* that rose on the labelled metric, the largest change first.
C26_OnePrimaryMetric ==
  Compared =>
    /\ comparison.comparedUsing =
         IF DurationSignal THEN "react-time-ms" ELSE "component-track-events"
    /\ comparison.hotspotRanking =
         IF comparison.comparedUsing = "react-time-ms" THEN "delta-ms" ELSE "count-delta"
    /\ comparison.verdict = "improved" =>
         LabelledTotal(afterReport) < LabelledTotal(beforeReport)
    /\ LabelledTotal(afterReport) > LabelledTotal(beforeReport) =>
         comparison.verdict = "regressed"
    /\ TopOf(comparison.topImprovements,
              {d \in DiffsOf(comparison.hotspotDiffs) : LabelledDelta(d) < 0})
    /\ TopOf(comparison.topRegressions,
              {d \in DiffsOf(comparison.hotspotDiffs) : LabelledDelta(d) > 0})
    /\ \A m, n \in 1..Len(comparison.topImprovements) :
         m < n => LabelledDelta(comparison.topImprovements[m])
                    <= LabelledDelta(comparison.topImprovements[n])
    /\ \A m, n \in 1..Len(comparison.topRegressions) :
         m < n => LabelledDelta(comparison.topRegressions[m])
                    >= LabelledDelta(comparison.topRegressions[n])

\* Two reports without durations whose counts both fell and rose.
C26_Witness ==
  /\ Compared
  /\ ~DurationSignal
  /\ comparison.topImprovements # <<>>
  /\ comparison.topRegressions # <<>>
  /\ comparison.verdict = "improved"

\* C27: the verdict is "improved" exactly when the primary total fell and
\* periodic churn did not newly appear.
C27_ImprovedIffDecreasedWithoutNewChurn ==
  Compared =>
    (comparison.verdict = "improved"
       <=> Primary(afterReport) < Primary(beforeReport) /\ ~ChurnAppeared)

\* C28: the verdict is "regressed" exactly when the primary total rose or
\* periodic churn newly appeared, and "mixed" when the comparison is
\* neither improved nor regressed.
C28_RegressedIffIncreasedOrNewChurn ==
  Compared =>
    /\ comparison.verdict = "regressed"
         <=> Primary(afterReport) > Primary(beforeReport) \/ ChurnAppeared
    /\ (Primary(afterReport) = Primary(beforeReport) /\ ~ChurnAppeared) =>
         comparison.verdict = "mixed"

\* C29: equal primary totals with the same churn classification give
\* "mixed"; a report compared with itself gives "mixed" and no top
\* improvement or regression.
C29_EqualReportsAreMixed ==
  Compared =>
    /\ (Primary(afterReport) = Primary(beforeReport) /\ ChurnBefore = ChurnAfter) =>
         comparison.verdict = "mixed"
    /\ beforeReport = afterReport =>
         /\ comparison.verdict = "mixed"
         /\ comparison.topImprovements = <<>>
         /\ comparison.topRegressions = <<>>

\* A report with hotspots, durations and churn compared with itself.
C29_Witness ==
  /\ Compared
  /\ beforeReport = afterReport
  /\ Len(beforeReport.hotspots) = 2
  /\ ChurnBefore
  /\ DurationSignal
  /\ comparison.verdict = "mixed"

ReportNames(r) == {r.hotspots[n].name : n \in 1..Len(r.hotspots)}

\* The hotspot of a name in a report, zero when the report lacks the name.
SideOf(r, name) ==
  IF name \in ReportNames(r)
  THEN CHOOSE h \in DiffsOf(r.hotspots) : h.name = name
  ELSE [name |-> name, totalMs |-> 0, count |-> 0]

PrimaryOfHotspot(h) == IF DurationSignal THEN h.totalMs ELSE h.count

\* C30: every name of either report has exactly one diff; its deltas are
\* after minus before, and its percent delta is 100 x delta / before on the
\* primary metric, to the hundredth, and 0 when before is 0; 120 before and
\* 40 after is a third of it: -66.67 percent.
C30_DiffsAlignedOnPrimaryMetric ==
  Compared =>
    /\ \A name \in ReportNames(beforeReport) \cup ReportNames(afterReport) :
         Cardinality({n \in 1..Len(comparison.hotspotDiffs) :
                        comparison.hotspotDiffs[n].name = name}) = 1
    /\ \A n \in 1..Len(comparison.hotspotDiffs) :
         LET d == comparison.hotspotDiffs[n]
             b == SideOf(beforeReport, d.name)
             a == SideOf(afterReport, d.name)
             beforePrimary == PrimaryOfHotspot(b)
             delta == PrimaryOfHotspot(a) - PrimaryOfHotspot(b)
         IN  /\ d.name \in ReportNames(beforeReport) \cup ReportNames(afterReport)
             /\ d.deltaMs = a.totalMs - b.totalMs
             /\ d.countDelta = a.count - b.count
             /\ IF beforePrimary = 0 THEN d.deltaPct = 0
                ELSE 2 * Abs(d.deltaPct * beforePrimary - 100 * 100 * delta) <= beforePrimary
             /\ (b.totalMs = 1200 /\ a.totalMs = 400) => d.deltaPct = -6667

\* topImprovements holds only diffs that fell on the primary metric and
\* topRegressions only diffs that rose, each with the largest change first
\* and with at most TopLimit entries, and no name is in both.
ReportTopLists ==
  Compared =>
    /\ \A n \in 1..Len(comparison.topImprovements) :
         LabelledDelta(comparison.topImprovements[n]) < 0
    /\ \A n \in 1..Len(comparison.topRegressions) :
         LabelledDelta(comparison.topRegressions[n]) > 0
    /\ \A m, n \in 1..Len(comparison.topImprovements) :
         m < n => Abs(LabelledDelta(comparison.topImprovements[m]))
                    >= Abs(LabelledDelta(comparison.topImprovements[n]))
    /\ \A m, n \in 1..Len(comparison.topRegressions) :
         m < n => Abs(LabelledDelta(comparison.topRegressions[m]))
                    >= Abs(LabelledDelta(comparison.topRegressions[n]))
    /\ {d.name : d \in DiffsOf(comparison.topImprovements)}
         \cap {d.name : d \in DiffsOf(comparison.topRegressions)} = {}
    /\ Len(comparison.topImprovements) <= TopLimit
    /\ Len(comparison.topRegressions) <= TopLimit

SummariesCompared == summaryDiff # <<>>

\* The same of a comparison of summaries, whose metric is the total
\* subtree time and whose lists hold at most SummaryTopLimit entries.
SummaryTopLists ==
  SummariesCompared =>
    /\ \A n \in 1..Len(summaryDiff.topImprovements) :
         summaryDiff.topImprovements[n].deltaTotalSubtreeMs < 0
    /\ \A n \in 1..Len(summaryDiff.topRegressions) :
         summaryDiff.topRegressions[n].deltaTotalSubtreeMs > 0
    /\ \A m, n \in 1..Len(summaryDiff.topImprovements) :
         m < n => summaryDiff.topImprovements[m].deltaTotalSubtreeMs
                    <= summaryDiff.topImprovements[n].deltaTotalSubtreeMs
    /\ \A m, n \in 1..Len(summaryDiff.topRegressions) :
         m < n => summaryDiff.topRegressions[m].deltaTotalSubtreeMs
                    >= summaryDiff.topRegressions[n].deltaTotalSubtreeMs
    /\ {d.componentName : d \in DiffsOf(summaryDiff.topImprovements)}
         \cap {d.componentName : d \in DiffsOf(summaryDiff.topRegressions)} = {}
    /\ Len(summaryDiff.topImprovements) <= SummaryTopLimit
    /\ Len(summaryDiff.topRegressions) <= SummaryTopLimit

\* C31: in a comparison of reports and in a comparison of summaries,
\* topImprovements holds only entries whose delta on the primary metric is
\* negative and topRegressions only entries whose delta is positive, each
\* with the largest change first; no name is in both lists, and a list
\* holds at most its bounded number of entries.
C31_TopLists ==
  ReportTopLists /\ SummaryTopLists

\* More hotspots fell than the list holds, and the list is full.
C31_Witness ==
  /\ Compared
  /\ Cardinality({d \in DiffsOf(comparison.hotspotDiffs) : LabelledDelta(d) < 0}) > TopLimit
  /\ Len(comparison.topImprovements) = TopLimit

\* ------------------------------------------------- the report of an export
MaxPasses == 2

\* typeof warning === "string" && warning.length > 0; a warning whose text
\* holds a number is written with the number beside the text.
IsWarningString(warning) == warning.msg # ""

AddAlways(seen, warning) == Append(seen, warning)

\* addWarningOnce on the members of the Set in insertion order.
AddOnce(seen, warning) ==
  IF IsWarningString(warning) THEN SetAdd(seen, warning) ELSE seen

RECURSIVE AddAllOnce(_, _)
AddAllOnce(seen, warnings) ==
  IF warnings = <<>> THEN seen
  ELSE AddAllOnce(AddOnce(seen, Head(warnings)), Tail(warnings))

WarnHookSlots(component) ==
  Warning("Hook name enrichment could not parse primitive hook slots for component.", component)

\* percentile(values, p): null, written NaN here, for no values.
percentile(values, p) ==
  IF values = <<>> THEN NaN
  ELSE LET sorted == SortAscending(values)
           idx == Min(Len(sorted) - 1, Max(0, ((p * Len(sorted) + 99) \div 100) - 1))
       IN  sorted[idx + 1]

RECURSIVE SumOf(_)
SumOf(values) == IF values = <<>> THEN 0 ELSE Head(values) + SumOf(Tail(values))

\* The turn of the loop that line 1812 abandons: none of primaryMs,
\* subtreeMs and selfMs is finite.
Ignored(component) ==
  /\ ~IsFinite(PrimaryMs(component))
  /\ ~IsFinite(component.subtreeMs)
  /\ ~IsFinite(component.selfMs)

\* Lines 1816-1858 for a rendered component that is counted; hotspotCounts
\* is the count of each aggregate of hotspotMap.
CountComponent(t, component) ==
  [t EXCEPT
     !.unnamedFiberRenders = @ + (IF component.usedFallbackName THEN 1 ELSE 0),
     !.componentRenderSamples = @ + 1,
     !.knownRenderReasonSamples = @ + (IF component.reason = "known" THEN 1 ELSE 0),
     !.unknownRenderReasonSamples =
        @ + (IF component.reason \in {"unknown", "matched"} THEN 1 ELSE 0),
     !.unknownRenderReasonUpdaterMatches = @ + (IF component.reason = "matched" THEN 1 ELSE 0),
     !.hotspotTotalMs = @ + (IF IsFinite(PrimaryMs(component)) THEN PrimaryMs(component) ELSE 0),
     !.hotspotCounts = MapSet(@, component.name, MapGet0(@, component.name) + 1)]

\* A loop that abandons the turn of a component without a duration.
TallyTimedComponent(t, component) ==
  IF Ignored(component) \/ PrimaryMs(component) = 0 THEN t
  ELSE CountComponent(t, component)

\* Lines 1805-1858 for one rendered component of a pass.
TallyComponent(t, component) ==
  IF Ignored(component) THEN t ELSE CountComponent(t, component)

RECURSIVE TallyComponents(_, _)
TallyComponents(t, components) ==
  IF components = <<>> THEN t
  ELSE TallyComponents(TallyComponent(t, Head(components)), Tail(components))

\* Lines 1720-1865 for one pass, on what the pass holds.
TallyPass(t, pass) ==
  TallyComponents(
    [t EXCEPT
       !.commitCount = @ + 1,
       !.commitDurationsMs =
          IF IsFinite(pass.durationMs) /\ pass.durationMs > 0
          THEN Append(@, pass.durationMs) ELSE @,
       !.commitsWithRenderReasons = @ + (IF pass.reasons THEN 1 ELSE 0),
       !.commitsWithoutRenderReasons = @ + (IF pass.reasons THEN 0 ELSE 1),
       !.renderedNodeCount = @ + Len(pass.components)],
    pass.components)

\* Lines 1870-1872.
TotalReactTimeMs(t) ==
  IF t.commitDurationsMs # <<>> THEN SumOf(t.commitDurationsMs) ELSE t.hotspotTotalMs

\* a || b
OrElse(a, b) == IF a # 0 THEN a ELSE b

\* Lines 1951-1960.
Totals(t) ==
  [reactEvents |-> OrElse(t.componentRenderSamples, t.commitCount),
   reactDurationEvents |-> t.componentRenderSamples,
   reactComponentTrackEvents |-> t.componentRenderSamples,
   reactSchedulerTrackEvents |-> 0,
   reactTimeMs |-> Round(TotalReactTimeMs(t)),
   commits |-> OrElse(t.commitCount, Len(t.commitDurationsMs)),
   avgCommitMs |-> Round(median(t.commitDurationsMs)),
   p95CommitMs |-> Round(percentile(t.commitDurationsMs, 95))]

When(condition, warning) == IF condition THEN <<warning>> ELSE <<>>

\* Lines 1990-2035; unknownRenderReasonRate >= 0.5 is written on the counts.
ReportWarnings(t, hookNameStats, runtimeHookStats, seen) ==
  When(t.unnamedFiberRenders > 0,
       Warning("Some rendered fibers could not be mapped to display names.",
               t.unnamedFiberRenders))
  \o When(t.commitCount > 0 /\ t.commitsWithRenderReasons = 0,
          Warning("No render reason details were present in the export.", 0))
  \o When(t.commitsWithoutRenderReasons > 0 /\ t.commitsWithRenderReasons > 0,
          Warning("Render reason details were missing for commit(s).",
                  t.commitsWithoutRenderReasons))
  \o When(/\ hookNameStats.enabled
          /\ hookNameStats.resolvedHookSlots = 0
          /\ runtimeHookStats.resolvedHookSlots = 0,
          Warning("Hook name enrichment did not resolve source hook labels.", 0))
  \o When(runtimeHookStats.enabled /\ runtimeHookStats.elementsScanned = 0,
          Warning("Runtime inspectElement enrichment was enabled but no inspected element payloads were found in this export.", 0))
  \o When(/\ runtimeHookStats.hookNameParsing.enabled
          /\ runtimeHookStats.hookNameParsing.unresolvedLocationCount > 0,
          Warning("parseHookNames left unresolved hook source location(s).",
                  runtimeHookStats.hookNameParsing.unresolvedLocationCount))
  \o When(/\ t.knownRenderReasonSamples + t.unknownRenderReasonSamples > 0
          /\ 2 * t.unknownRenderReasonSamples
               >= t.knownRenderReasonSamples + t.unknownRenderReasonSamples,
          Warning("Most whyRendered entries are 'unknown'.", 0))
  \o When(t.unknownRenderReasonUpdaterMatches > 0,
          Warning("unknown whyRendered sample(s) matched commit updater fibers.",
                  t.unknownRenderReasonUpdaterMatches))
  \o seen

\* What a pass holds for the analyzer: the warnings its replay and its
\* flamegraph raise, in order, its duration, whether it has change
\* descriptions, and its rendered components.
RenderedOf(name, usedFallbackName, selfMs, subtreeMs, reason) ==
  [name |-> name, usedFallbackName |-> usedFallbackName, selfMs |-> selfMs,
   subtreeMs |-> subtreeMs, reason |-> reason]

PassAnomalies ==
  {<<>>,
   <<WarnUnknownOperation(9)>>,
   <<WarnUnknownOperation(9), WarnUnknownOperation(9)>>,
   <<WarnRemoveLength, WarnUnknownOperation(9)>>,
   <<WarnUnknownOperation(9), WarnRemoveLength, WarnHookSlots(1)>>}

PassComponents(reasons) ==
  {<<>>,
   <<RenderedOf("App", FALSE, 2000, 3000, "none")>>,
   <<RenderedOf("root::Fiber#3", TRUE, 0, 0, "none")>>}
  \cup (IF reasons
        THEN {<<RenderedOf("App", FALSE, 0, 2000, "known"),
                RenderedOf("root::Fiber#3", TRUE, 0, 0, "unknown")>>,
              <<RenderedOf("Item", FALSE, 0, 0, "matched")>>}
        ELSE {})

Passes ==
  {[anomalies |-> anomalies, durationMs |-> duration, reasons |-> reasons,
    components |-> components] :
     anomalies \in PassAnomalies, duration \in {NaN, 3000}, reasons \in {FALSE},
     components \in PassComponents(FALSE)}
  \cup {[anomalies |-> anomalies, durationMs |-> duration, reasons |-> reasons,
         components |-> components] :
          anomalies \in PassAnomalies, duration \in {NaN, 3000}, reasons \in {TRUE},
          components \in PassComponents(TRUE)}

HookNameStats == {[enabled |-> e, resolvedHookSlots |-> 0] : e \in BOOLEAN}

RuntimeHookStats ==
  {[enabled |-> FALSE, elementsScanned |-> 0, resolvedHookSlots |-> 0,
    hookNameParsing |-> [enabled |-> FALSE, unresolvedLocationCount |-> 0]],
   [enabled |-> TRUE, elementsScanned |-> 0, resolvedHookSlots |-> 0,
    hookNameParsing |-> [enabled |-> TRUE, unresolvedLocationCount |-> 0]],
   [enabled |-> TRUE, elementsScanned |-> 2, resolvedHookSlots |-> 1,
    hookNameParsing |-> [enabled |-> TRUE, unresolvedLocationCount |-> 1]]}

AnalysisInit ==
  /\ ReportIdle
  /\ FlameIdle
  /\ SummaryIdle
  /\ commitTree = [nodes |-> EmptyNodes, rootID |-> 0]
  /\ warningSet = {}
  /\ commitIndex = 0
  /\ pc = "analyse"
  /\ operations = <<>>
  /\ final = TRUE
  /\ i = 0
  /\ stringTable = <<>>
  /\ opCount = 0
  /\ applied = <<>>
  /\ withRecord = {}
  /\ unknownSeen = <<>>

exceptAnalysis ==
  <<vars, flameVars, summaryVars, hotspotVars, cadenceVars, durationVars, compareVars,
    recorderVars, poolVars, bridgeVars, cacheVars>>

\* One pass of a root is replayed and aggregated.
AnalyzePass ==
  /\ ~analysis.built
  /\ tally.commitCount < MaxPasses
  /\ \E pass \in Passes :
       /\ tally' = TallyPass(tally, pass)
       /\ warningSeen' = AddAllOnce(warningSeen, pass.anomalies)
  /\ UNCHANGED <<analysis, exceptAnalysis>>

\* The loops over the roots and their passes are over: the report.
BuildAnalysis ==
  /\ ~analysis.built
  /\ \E hookNameStats \in HookNameStats, runtimeHookStats \in RuntimeHookStats :
       analysis' = [built |-> TRUE,
                    totals |-> Totals(tally),
                    renderReasons |->
                      [knownSamples |-> tally.knownRenderReasonSamples,
                       unknownSamples |-> tally.unknownRenderReasonSamples,
                       sampleCount |-> tally.knownRenderReasonSamples
                                         + tally.unknownRenderReasonSamples],
                    warnings |-> ReportWarnings(tally, hookNameStats, runtimeHookStats,
                                                warningSeen)]
  /\ UNCHANGED <<tally, warningSeen, exceptAnalysis>>

AnalysisNext == AnalyzePass \/ BuildAnalysis

AnalysisSpec == AnalysisInit /\ [][AnalysisNext]_analysisVars

\* ----------------------------------------------------- report properties
\* C32: no warning occurs twice in the warnings of a report, whatever the
\* passes raised and however often.
C32_WarningsDeduplicated ==
  analysis.built =>
    \A m, n \in 1..Len(analysis.warnings) :
      analysis.warnings[m] = analysis.warnings[n] => m = n

\* Two passes raised the same warning, one of them twice, and the report
\* holds it.
C32_Witness ==
  /\ analysis.built
  /\ tally.commitCount = 2
  /\ \E n \in 1..Len(analysis.warnings) : analysis.warnings[n] = WarnUnknownOperation(9)
  /\ \E n \in 1..Len(analysis.warnings) : analysis.warnings[n] = WarnRemoveLength
  /\ Len(analysis.warnings) >= 5

\* A warning that tells the reader that the input held no signal.
ReportsEmptySignal(warning) ==
  warning.msg \notin
    {"Some rendered fibers could not be mapped to display names.",
     "No render reason details were present in the export.",
     "Render reason details were missing for commit(s).",
     "Hook name enrichment did not resolve source hook labels.",
     "Runtime inspectElement enrichment was enabled but no inspected element payloads were found in this export.",
     "parseHookNames left unresolved hook source location(s).",
     "Most whyRendered entries are 'unknown'.",
     "unknown whyRendered sample(s) matched commit updater fibers.",
     WarnUnknownOperation(0).msg,
     WarnRemoveLength.msg,
     WarnHookSlots(0).msg}

\* C33: the report of an input without passes has totals that are all
\* zero and a warning that reports the empty signal.
C33_EmptySignalReported ==
  (analysis.built /\ tally.commitCount = 0) =>
    /\ \A field \in DOMAIN analysis.totals : analysis.totals[field] = 0
    /\ \E n \in 1..Len(analysis.warnings) : ReportsEmptySignal(analysis.warnings[n])

\* The sum of the counts of the aggregates.
RECURSIVE SumCounts(_)
SumCounts(map) == IF map = <<>> THEN 0 ELSE Head(map)[2] + SumCounts(Tail(map))

\* C37: when all passes are processed, the counts of the per-name
\* aggregates add up to the rendered-component samples of the totals
\* (reactDurationEvents and reactComponentTrackEvents), which are as many as
\* the rendered nodes of all passes; and knownSamples + unknownSamples is
\* the sampleCount of the render reasons.
C37_SamplesCountedOnce ==
  analysis.built =>
    /\ SumCounts(tally.hotspotCounts) = analysis.totals.reactDurationEvents
    /\ analysis.totals.reactComponentTrackEvents = analysis.totals.reactDurationEvents
    /\ analysis.totals.reactDurationEvents = tally.renderedNodeCount
    /\ analysis.renderReasons.knownSamples + analysis.renderReasons.unknownSamples
         = analysis.renderReasons.sampleCount

\* Two passes with three rendered components, two of one name with a known
\* and an unknown reason between them, one of them without any duration.
C37_Witness ==
  /\ analysis.built
  /\ tally.commitCount = 2
  /\ tally.renderedNodeCount = 3
  /\ Len(tally.hotspotCounts) = 2
  /\ MapGet0(tally.hotspotCounts, "root::Fiber#3") = 2
  /\ analysis.renderReasons.knownSamples = 1
  /\ analysis.renderReasons.unknownSamples = 1

\* --------------------------------------------- one record, any cells
\* Encoded operations whose fields are as the backend writes them, and
\* the same with a length or an id that is negative, missing or no number.
HostileOps ==
  { <<TREE_OPERATION_ADD, 1, ELEMENT_TYPE_ROOT, 0, 0, 0, 0>>,
    <<TREE_OPERATION_ADD, 2, FunctionType, 1, 0, 1, 0, 0>>,
    <<TREE_OPERATION_ADD, NaN, FunctionType>>,
    <<TREE_OPERATION_REMOVE, 1, 2>>,
    <<TREE_OPERATION_REMOVE, -1>>,
    <<TREE_OPERATION_REMOVE, NaN>>,
    <<TREE_OPERATION_REORDER_CHILDREN, 1, 1, 2>>,
    <<TREE_OPERATION_REORDER_CHILDREN, 1, -2>>,
    <<TREE_OPERATION_UPDATE_TREE_BASE_DURATION, 1, 500>>,
    <<TREE_OPERATION_UPDATE_ERRORS_OR_WARNINGS, 2, 0, 1>>,
    <<TREE_OPERATION_SET_SUBTREE_MODE, 1, 1>>,
    <<SUSPENSE_TREE_OPERATION_ADD, 2, 1, 0, 0, -1>>,
    <<SUSPENSE_TREE_OPERATION_ADD, 2, 1, 0, 0, -2>>,
    <<SUSPENSE_TREE_OPERATION_ADD, 2, 1, 0, 0, NaN>>,
    <<SUSPENSE_TREE_OPERATION_ADD, 2, 1>>,
    <<SUSPENSE_TREE_OPERATION_REMOVE, 1, 3>>,
    <<SUSPENSE_TREE_OPERATION_REMOVE, -3>>,
    <<SUSPENSE_TREE_OPERATION_REMOVE, NaN>>,
    <<SUSPENSE_TREE_OPERATION_REMOVE>>,
    <<SUSPENSE_TREE_OPERATION_REORDER_CHILDREN, 1, -2>>,
    <<SUSPENSE_TREE_OPERATION_REORDER_CHILDREN, 1, NaN>>,
    <<SUSPENSE_TREE_OPERATION_RESIZE, 2, -2>>,
    <<SUSPENSE_TREE_OPERATION_RESIZE, 2, NaN>>,
    <<SUSPENSE_TREE_OPERATION_RESIZE, 2>>,
    <<SUSPENSE_TREE_OPERATION_SUSPENDERS, 2, -1>>,
    <<SUSPENSE_TREE_OPERATION_SUSPENDERS, 2, NaN>>,
    <<SUSPENSE_TREE_OPERATION_SUSPENDERS, 2, 1, 1, 0, 0, 1, -4>>,
    <<SUSPENSE_TREE_OPERATION_SUSPENDERS, 2, 1, 1, 0, 0, 1, NaN>>,
    <<SUSPENSE_TREE_OPERATION_SUSPENDERS>>,
    <<TREE_OPERATION_APPLIED_ACTIVITY_SLICE_CHANGE, 2>>,
    <<6>>, <<-1>>, <<NaN>> }

\* The operations of a record after its string table: one or two of them.
HostileRecords == HostileOps \cup {a \o b : a \in HostileOps, b \in HostileOps}

RecordInit ==
  /\ ReportIdle
  /\ FlameIdle
  /\ SummaryIdle
  /\ commitTree = [nodes |-> EmptyNodes, rootID |-> 0]
  /\ warningSet = {}
  /\ commitIndex = 0
  /\ pc = "analyse"
  /\ operations = <<>>
  /\ final = TRUE
  /\ i = 0
  /\ stringTable = <<>>
  /\ opCount = 0
  /\ applied = <<>>
  /\ withRecord = {}
  /\ unknownSeen = <<>>

\* applyOperationsToCommitTree is called on a record and reaches its
\* operation loop; the cursor counts from the end of the string table.
ReplayRecord ==
  /\ pc = "analyse"
  /\ opCount = 0
  /\ \E record \in HostileRecords : operations' = record
  /\ final' = TRUE
  /\ i' = 0
  /\ pc' = "decode"
  /\ opCount' = 1
  /\ UNCHANGED <<otherVars, commitTree, warningSet, commitIndex, stringTable, historyVars>>

RecordNext == ReplayRecord \/ Decode \/ EndRecord

RecordSpec == RecordInit /\ [][RecordNext]_vars

\* C34: every iteration of the operation loop leaves the cursor further on
\* in the record, or beyond it so that the loop is left; the cursor never
\* stays and never goes back, whatever the cells hold.
C34_CursorAdvances ==
  [][AtOperation => (pc' = "decode" /\ operations' = operations
                       /\ (~InRecord(operations, i') \/ i' > i))]_vars

\* The loop went past an ignored operation whose length is negative and
\* has more of the record to decode.
C34_Witness ==
  /\ pc = "decode"
  /\ Cell(operations, 0) = SUSPENSE_TREE_OPERATION_REMOVE
  /\ Cell(operations, 1) = -3
  /\ i = 2
  /\ InRecord(operations, i)

\* =================================================================
\* The recorder's live tree (recordReactDevToolsProfile)
\* =================================================================
MaxRecords == 3

\* The root the DevTools backend reports in its profiling data.
RecordedRoot == 1

\* getOrCreateRootTree: the tree of the root, made empty when it is new.
getOrCreateRootTree(trees, rootID) ==
  IF Has(trees, rootID) THEN trees[rootID]
  ELSE [rootID |-> rootID, nodes |-> EmptyNodes]

\* One iteration of the operation loop of applyOperationsToLiveTree: the
\* cases of the analyzer's loop without their warnings, except that the
\* live nodes carry no treeBaseDuration (the field keeps its 0 here) and
\* TREE_OPERATION_UPDATE_TREE_BASE_DURATION only moves the cursor.
LiveSwitch(tree, table, ops, k) ==
  IF Cell(ops, k) = TREE_OPERATION_UPDATE_TREE_BASE_DURATION
  THEN Step(tree, {}, k + 3)
  ELSE Switch(tree, {}, table, ops, k)

\* while (i < operations.length) of applyOperationsToLiveTree.
RECURSIVE LiveLoop(_, _, _, _)
LiveLoop(tree, table, ops, k) ==
  IF ~InRecord(ops, k) THEN tree
  ELSE LET s == LiveSwitch(tree, table, ops, k)
       IN  LiveLoop(s.tree, table, ops, s.i)

\* applyOperationsToLiveTree: nothing for a record of fewer than 3 cells or
\* without a finite root; the tree of the root is made before the string
\* table is read and is left as it is when the table is not well formed.
applyOperationsToLiveTree(trees, ops) ==
  IF Len(ops) < 3 \/ ~IsFinite(Cell(ops, 1)) THEN trees
  ELSE LET rootID == Cell(ops, 1)
           tree == getOrCreateRootTree(trees, rootID)
           header == DecodeStringTable(ops, {})
       IN  IF header.outcome # "ok" THEN Put(trees, rootID, tree)
           ELSE Put(trees, rootID, LiveLoop(tree, header.table, ops, header.i))

\* The keys of a map of numbers in ascending order.
AscendingKeys(nodes) ==
  [n \in 1..Cardinality(DOMAIN nodes) |->
     CHOOSE id \in DOMAIN nodes : Cardinality({other \in DOMAIN nodes : other < id}) = n - 1]

\* serializeSnapshotTree: an entry for each node, sorted by id; an entry
\* has the children, the name and the type of the node and no parentID.
serializeSnapshotTree(tree) ==
  [n \in 1..Cardinality(DOMAIN tree.nodes) |->
     LET id == AscendingKeys(tree.nodes)[n]
     IN  SnapshotEntry(id, tree.nodes[id].children, tree.nodes[id].displayName,
                       IF IsFinite(tree.nodes[id].type) THEN tree.nodes[id].type ELSE 9)]

\* captureSnapshotsAtProfilingStart
captureSnapshotsAtProfilingStart(trees) ==
  [rootID \in DOMAIN trees |-> serializeSnapshotTree(trees[rootID])]

\* The operation loop of applyOperationsToCommitTree run to its end.
RECURSIVE OperationLoop(_, _, _, _)
OperationLoop(tree, table, ops, k) ==
  IF ~InRecord(ops, k) THEN tree
  ELSE LET s == Switch(tree, {}, table, ops, k)
       IN  OperationLoop(s.tree, table, ops, s.i)

\* applyOperationsToCommitTree on a whole record (the records here hold no
\* cell that String.fromCodePoint refuses).
applyOperationsToCommitTree(tree, ops) ==
  LET header == DecodeStringTable(ops, {})
  IN  IF header.outcome # "ok" THEN tree
      ELSE OperationLoop(tree, header.table, ops, header.i)

\* The analyzer's tree after the records of the root, in their order.
RECURSIVE ReplayAll(_, _)
ReplayAll(tree, records) ==
  IF records = <<>> THEN tree
  ELSE ReplayAll(applyOperationsToCommitTree(tree, Head(records)), Tail(records))

\* ---------------------------------------------------------------- inputs
\* [rendererID, rootID, stringTableSize] of a record of the recorded root
\* with an empty string table (every display name is null).
RecordHeader == <<1, RecordedRoot, 0>>

AddOf(id, parentID) == <<TREE_OPERATION_ADD, id, FunctionType, parentID, 0, 1, 0, 0>>

\* The records the bridge delivers: the mount of the root with a child, a
\* grandchild, a sibling, its removal, a reorder, a duration update, a
\* record of two cells, a record without a root, a reorder that lists the
\* grandchild under the root and an add under a parent that is absent.
BridgeRecords ==
  { RecordHeader \o <<TREE_OPERATION_ADD, 1, ELEMENT_TYPE_ROOT, 0, 0, 0, 0>> \o AddOf(2, 1),
    RecordHeader \o AddOf(4, 2),
    RecordHeader \o AddOf(3, 1),
    RecordHeader \o <<TREE_OPERATION_REMOVE, 1, 3>>,
    RecordHeader \o <<TREE_OPERATION_REORDER_CHILDREN, 1, 2, 3, 2>>,
    RecordHeader \o <<TREE_OPERATION_UPDATE_TREE_BASE_DURATION, 2, 1500>>,
    <<1, RecordedRoot>>,
    <<1, NaN, 0>> \o AddOf(3, 1),
    RecordHeader \o <<TREE_OPERATION_REORDER_CHILDREN, 1, 2, 2, 4>>,
    RecordHeader \o AddOf(3, 7) }

RecorderInit ==
  /\ ReportIdle
  /\ FlameIdle
  /\ SummaryIdle
  /\ commitTree = [nodes |-> EmptyNodes, rootID |-> 0]
  /\ warningSet = {}
  /\ commitIndex = 0
  /\ pc = "analyse"
  /\ operations = <<>>
  /\ final = TRUE
  /\ i = 0
  /\ stringTable = <<>>
  /\ opCount = 0
  /\ applied = <<>>
  /\ withRecord = {}
  /\ unknownSeen = <<>>

exceptRecorder ==
  <<vars, flameVars, summaryVars, hotspotVars, cadenceVars, durationVars, compareVars,
    analysisVars, poolVars, bridgeVars, cacheVars>>

\* operationsDuringProfilingByRoot.get(rootID) ?? []
StoredFor(stored, rootID) == IF Has(stored, rootID) THEN stored[rootID] ELSE <<>>

\* The listener of the bridge's 'operations' event (lines 1689-1711): the
\* record is applied to the live tree and, while profiling is active, kept
\* under its root.
OperationsArrive ==
  /\ recorderPc \in {"page", "profiling", "stopped"}
  /\ Len(arrivals) < MaxRecords
  /\ \E record \in BridgeRecords :
       LET rootID == Cell(record, 1)
       IN  /\ liveTreesByRoot' = applyOperationsToLiveTree(liveTreesByRoot, record)
           /\ operationsDuringProfilingByRoot' =
                IF profilingActive /\ IsFinite(rootID)
                THEN Put(operationsDuringProfilingByRoot, rootID,
                         Append(StoredFor(operationsDuringProfilingByRoot, rootID), record))
                ELSE operationsDuringProfilingByRoot
           /\ arrivals' = Append(arrivals, [operations |-> record, active |-> profilingActive])
  /\ UNCHANGED <<profilingActive, snapshotsByRoot, liveAtStop, recorderPc, rebuilt,
                 exceptRecorder>>

\* Lines 1751-1756: the snapshots are taken, the lists are emptied and the
\* flag is set.
StartProfiling ==
  /\ recorderPc = "page"
  /\ snapshotsByRoot' = captureSnapshotsAtProfilingStart(liveTreesByRoot)
  /\ operationsDuringProfilingByRoot' = [rootID \in DOMAIN liveTreesByRoot |-> <<>>]
  /\ profilingActive' = TRUE
  /\ recorderPc' = "profiling"
  /\ UNCHANGED <<liveTreesByRoot, arrivals, liveAtStop, rebuilt, exceptRecorder>>

\* Line 1777: the flag is cleared.
StopProfiling ==
  /\ recorderPc = "profiling"
  /\ profilingActive' = FALSE
  /\ liveAtStop' = liveTreesByRoot
  /\ recorderPc' = "stopped"
  /\ UNCHANGED <<liveTreesByRoot, snapshotsByRoot, operationsDuringProfilingByRoot,
                 arrivals, rebuilt, exceptRecorder>>

\* Lines 1819-1826: the root is exported with its snapshot (the live tree
\* of the moment when none was taken) and its records; the analyzer builds
\* the tree of the snapshot and replays the records on it.
ExportRoot ==
  /\ recorderPc = "stopped"
  /\ LET snapshots == IF Has(snapshotsByRoot, RecordedRoot)
                      THEN snapshotsByRoot[RecordedRoot]
                      ELSE IF Has(liveTreesByRoot, RecordedRoot)
                      THEN serializeSnapshotTree(liveTreesByRoot[RecordedRoot])
                      ELSE <<>>
         records == StoredFor(operationsDuringProfilingByRoot, RecordedRoot)
     IN  rebuilt' = ReplayAll(buildInitialCommitTree(
                                [rootID |-> RecordedRoot, snapshots |-> snapshots]),
                              records)
  /\ recorderPc' = "exported"
  /\ UNCHANGED <<liveTreesByRoot, profilingActive, snapshotsByRoot,
                 operationsDuringProfilingByRoot, arrivals, liveAtStop, exceptRecorder>>

RecorderNext == OperationsArrive \/ StartProfiling \/ StopProfiling \/ ExportRoot

RecorderSpec == RecorderInit /\ [][RecorderNext]_recorderVars

\* ------------------------------------------------------------ properties
\* The node ids of a tree with the parent link and the children of each.
Links(tree) ==
  [id \in DOMAIN tree.nodes |->
     [parentID |-> tree.nodes[id].parentID, children |-> tree.nodes[id].children]]

LinksOf(trees, rootID) == IF Has(trees, rootID) THEN Links(trees[rootID]) ELSE <<>>

\* The rebuilt tree has the ids, the parent links and the children order
\* of the live tree of the moment profiling was stopped.
TreesAgree ==
  recorderPc = "exported" => Links(rebuilt) = LinksOf(liveAtStop, RecordedRoot)

\* The records of the root that arrived while profiling was active.
ArrivedActive ==
  LET kept == SelectSeq(arrivals, LAMBDA a : a.active /\ Cell(a.operations, 1) = RecordedRoot)
  IN  [n \in 1..Len(kept) |-> kept[n].operations]

\* The list of the root holds, in their order, the records that arrived
\* while profiling was active and no other.
StoredWhileActive ==
  StoredFor(operationsDuringProfilingByRoot, RecordedRoot) = ArrivedActive

RECURSIVE ApplyEach(_, _)
ApplyEach(trees, records) ==
  IF records = <<>> THEN trees
  ELSE ApplyEach(applyOperationsToLiveTree(trees, Head(records).operations), Tail(records))

\* The live trees are the arrived records applied once each, in order.
AppliedOnce == liveTreesByRoot = ApplyEach(<<>>, arrivals)

\* C36: the snapshot of profiling start with the stored records replayed on
\* it by the analyzer has the node ids, parent links and children order of
\* the recorder's live tree at the stop of profiling; a record is stored if
\* and only if it arrived while profiling was active; every record that
\* arrives is applied to the live tree exactly once.
C36_RecorderAndAnalyzerAgree == TreesAgree /\ StoredWhileActive /\ AppliedOnce

\* =================================================================
\* The worker pool (runWithConcurrency)
\* =================================================================
MaxItems == 4

\* The items handed to runWithConcurrency: a list of up to MaxItems fibers,
\* or something that is not an array.
ItemLists ==
  {[isArray |-> FALSE, cells |-> <<>>]}
    \cup { [isArray |-> TRUE, cells |-> [n \in 1..len |-> 10 + n]] : len \in 0..MaxItems }

\* The concurrency asked for, in halves: no number, -1, 0, 0.5, 1, 1.5, 2,
\* 2.5 and 5.
Concurrencies == {NaN, -2, 0, 1, 2, 3, 4, 5, 10}

\* Math.floor of a number given in halves.
Floor(halves) == halves \div 2

SafeConcurrencyAndOne(halves) ==
  Max(1, IF IsFinite(halves) THEN Floor(halves) ELSE 1) + 1

\* Math.max(1, Number.isFinite(concurrency) ? Math.floor(concurrency) : 1)
SafeConcurrency(halves) == Max(1, IF IsFinite(halves) THEN Floor(halves) ELSE 1)

PoolInit ==
  /\ ReportIdle
  /\ FlameIdle
  /\ SummaryIdle
  /\ commitTree = [nodes |-> EmptyNodes, rootID |-> 0]
  /\ warningSet = {}
  /\ commitIndex = 0
  /\ pc = "analyse"
  /\ operations = <<>>
  /\ final = TRUE
  /\ i = 0
  /\ stringTable = <<>>
  /\ opCount = 0
  /\ applied = <<>>
  /\ withRecord = {}
  /\ unknownSeen = <<>>

exceptPool ==
  <<vars, flameVars, summaryVars, hotspotVars, cadenceVars, durationVars, compareVars,
    analysisVars, recorderVars, bridgeVars, cacheVars>>

\* Lines 313-325: the call up to the creation of the workers; without
\* items it returns at once.
CallPool ==
  /\ poolPc = "idle"
  /\ \E items \in ItemLists, asked \in Concurrencies :
       /\ concurrency' = asked
       /\ safeItems' = IF items.isArray THEN items.cells ELSE <<>>
       /\ workerCount' = IF safeItems' = <<>> THEN 0
                         ELSE Min(Len(safeItems'), SafeConcurrency(asked))
       /\ poolPc' = IF safeItems' = <<>> THEN "done" ELSE "create"
  /\ UNCHANGED <<nextIndex, workers, handed, exceptPool>>

\* One turn of the loop of a worker (lines 328-332) from its test to its
\* await: the next index is taken and the worker function is called on its
\* item, or the loop is left.
Turn(w) ==
  IF nextIndex < Len(safeItems)
  THEN /\ workers' = [k \in 1..Max(w, Len(workers)) |->
                        IF k = w THEN [at |-> "await", index |-> nextIndex]
                        ELSE workers[k]]
       /\ nextIndex' = nextIndex + 1
       /\ handed' = Append(handed, nextIndex)
  ELSE /\ workers' = [k \in 1..Max(w, Len(workers)) |->
                        IF k = w THEN [at |-> "returned", index |-> -1]
                        ELSE workers[k]]
       /\ UNCHANGED <<nextIndex, handed>>

\* Array.from calls the async function of the next worker, which runs to
\* its first await before the next one is made.
CreateWorker ==
  /\ poolPc = "create"
  /\ Len(workers) < workerCount
  /\ Turn(Len(workers) + 1)
  /\ UNCHANGED <<concurrency, safeItems, workerCount, poolPc, exceptPool>>

\* await Promise.all(workers): the call waits for its workers.
AwaitWorkers ==
  /\ poolPc = "create"
  /\ Len(workers) = workerCount
  /\ poolPc' = "await"
  /\ UNCHANGED <<concurrency, safeItems, workerCount, nextIndex, workers, handed,
                 exceptPool>>

\* The promise of the worker function of an item is fulfilled (the worker
\* function of lines 1534-1600 catches what it raises).
ItemProcessed(w) ==
  /\ poolPc = "await"
  /\ workers[w].at = "await"
  /\ workers' = [workers EXCEPT ![w].at = "resume"]
  /\ UNCHANGED <<concurrency, safeItems, workerCount, nextIndex, handed, poolPc,
                 exceptPool>>

\* The worker goes on after its await with the next turn of its loop.
ResumeWorker(w) ==
  /\ poolPc = "await"
  /\ workers[w].at = "resume"
  /\ Turn(w)
  /\ UNCHANGED <<concurrency, safeItems, workerCount, poolPc, exceptPool>>

\* Promise.all is fulfilled when every worker has returned.
PoolCompletes ==
  /\ poolPc = "await"
  /\ \A w \in 1..Len(workers) : workers[w].at = "returned"
  /\ poolPc' = "done"
  /\ UNCHANGED <<concurrency, safeItems, workerCount, nextIndex, workers, handed,
                 exceptPool>>

PoolNext ==
  \/ CallPool
  \/ CreateWorker
  \/ AwaitWorkers
  \/ \E w \in 1..Len(workers) : ItemProcessed(w)
  \/ \E w \in 1..Len(workers) : ResumeWorker(w)
  \/ PoolCompletes

PoolSpec == PoolInit /\ [][PoolNext]_poolVars

\* ------------------------------------------------------------ properties
\* The indexes whose worker function has been called and is not fulfilled.
InFlight == { workers[w].index : w \in { k \in 1..Len(workers) : workers[k].at = "await" } }

\* The indexes whose worker function is fulfilled.
Processed == Elements(handed) \ InFlight

\* min(items, max(1, floor(concurrency))) of the request.
PoolLimit ==
  Min(Len(safeItems), Max(1, IF IsFinite(concurrency) THEN Floor(concurrency) ELSE 1))

\* C38: under every interleaving of the workers, every item is handed to
\* the worker function once and no more, at most
\* min(items, max(1, floor(concurrency))) items are in flight at a time,
\* and the call completes only when every item is processed.
C38_BoundedPool ==
  /\ NoRepetition(handed)
  /\ Elements(handed) \subseteq 0..(Len(safeItems) - 1)
  /\ Cardinality(InFlight) <= PoolLimit
  /\ Cardinality({ k \in 1..Len(workers) : workers[k].at = "await" }) <= PoolLimit
  /\ poolPc = "done" => Processed = 0..(Len(safeItems) - 1)

\* Four items and a concurrency of 2.5: two items are processed and two are
\* in flight, the last of them with the first worker.
C38_Witness ==
  /\ Len(safeItems) = 4
  /\ concurrency = 5
  /\ Cardinality(InFlight) = 2
  /\ Cardinality(Processed) = 2
  /\ workers[1].index = 3

\* =================================================================
\* The waiters of the bridge (BridgeController)
\* =================================================================
MaxWaiters == 3

\* The predicates the recorder passes to waitForEvent: none, and the test
\* Number(payload?.responseID) === requestID of inspectElement.
NoPredicate == [kind |-> "null", requestID |-> 0]
ForRequest(requestID) == [kind |-> "function", requestID |-> requestID]
Predicates == {NoPredicate, ForRequest(1), ForRequest(2)}

EventNames == {"inspectedElement", "profilingData"}

\* The payloads of the events: a responseID or none.
Payloads == {[responseID |-> id] : id \in {1, 2, NaN}}

AcceptsAny(predicate, payload) == TRUE

\* typeof waiter.predicate !== 'function' || waiter.predicate(payload)
Accepts(predicate, payload) ==
  \/ predicate.kind # "function"
  \/ (IsFinite(payload.responseID) /\ payload.responseID = predicate.requestID)

BridgeInit ==
  /\ ReportIdle
  /\ FlameIdle
  /\ SummaryIdle
  /\ commitTree = [nodes |-> EmptyNodes, rootID |-> 0]
  /\ warningSet = {}
  /\ commitIndex = 0
  /\ pc = "analyse"
  /\ operations = <<>>
  /\ final = TRUE
  /\ i = 0
  /\ stringTable = <<>>
  /\ opCount = 0
  /\ applied = <<>>
  /\ withRecord = {}
  /\ unknownSeen = <<>>

exceptBridge ==
  <<vars, flameVars, summaryVars, hotspotVars, cadenceVars, durationVars, compareVars,
    analysisVars, recorderVars, poolVars, cacheVars>>

\* waitForEvent (lines 696-714): a promise is made, its timer is armed and
\* its entry is pushed on this._waiters.  An entry is named by the index of
\* its promise.
WaitForEvent ==
  /\ Len(promises) < MaxWaiters
  /\ \E eventName \in EventNames, predicate \in Predicates :
       promises' = Append(promises, [eventName |-> eventName, predicate |-> predicate,
                                     state |-> "pending", value |-> [responseID |-> NaN]])
  /\ timers' = timers \cup {Len(promises) + 1}
  /\ waiters' = Append(waiters, Len(promises) + 1)
  /\ settlements' = Append(settlements, [resolve |-> 0, reject |-> 0])
  /\ UNCHANGED exceptBridge

\* The callback of the timer (lines 698-701): the entry is filtered out of
\* this._waiters and reject is called.
TimeoutFires ==
  \E entry \in timers :
    /\ timers' = timers \ {entry}
    /\ waiters' = SelectSeq(waiters, LAMBDA waiter : waiter # entry)
    /\ settlements' = [settlements EXCEPT ![entry].reject = @ + 1]
    /\ promises' = IF promises[entry].state = "pending"
                   THEN [promises EXCEPT ![entry].state = "rejected"]
                   ELSE promises
    /\ UNCHANGED exceptBridge

\* The waiters the loop of lines 735-747 calls resolve on.
Matching(eventName, payload) ==
  SelectSeq(waiters, LAMBDA waiter :
    /\ promises[waiter].eventName = eventName
    /\ Accepts(promises[waiter].predicate, payload))

\* _dispatchEvent (lines 724-749) on the waiters: resolve of a matching
\* entry clears its timer and resolves its promise; the others remain.
DispatchEvent ==
  \E eventName \in EventNames, payload \in Payloads :
    LET matching == Elements(Matching(eventName, payload))
    IN  /\ timers' = timers \ matching
        /\ settlements' = [entry \in 1..Len(settlements) |->
                             IF entry \in matching
                             THEN [settlements[entry] EXCEPT !.resolve = @ + 1]
                             ELSE settlements[entry]]
        /\ promises' = [entry \in 1..Len(promises) |->
                          IF entry \in matching /\ promises[entry].state = "pending"
                          THEN [promises[entry] EXCEPT !.state = "resolved",
                                                       !.value = payload]
                          ELSE promises[entry]]
        /\ waiters' = SelectSeq(waiters, LAMBDA waiter : waiter \notin matching)
        /\ UNCHANGED exceptBridge

BridgeNext == WaitForEvent \/ TimeoutFires \/ DispatchEvent

BridgeSpec == BridgeInit /\ [][BridgeNext]_bridgeVars

\* ------------------------------------------------------------ properties
Entries == 1..Len(promises)

\* resolve and reject were called once between them at most.
SettledAtMostOnce ==
  \A entry \in Entries : settlements[entry].resolve + settlements[entry].reject <= 1

\* this._waiters holds the entries that are pending, each once.
OnlyPendingRegistered ==
  /\ NoRepetition(waiters)
  /\ Elements(waiters) = { entry \in Entries : promises[entry].state = "pending" }

\* A waiter of inspectElement gets the response of its own request.
OwnResponse ==
  \A entry \in Entries :
    (promises[entry].state = "resolved" /\ promises[entry].predicate.kind = "function")
      => promises[entry].value.responseID = promises[entry].predicate.requestID

\* The entries a step resolves.
NewlyResolved ==
  { entry \in Entries : promises[entry].state = "pending"
                          /\ promises'[entry].state = "resolved" }

\* A step that resolves waiters is an event that resolves the registered
\* waiters of its name whose predicate accepts its payload, and no other.
ResolvedByTheirEvent ==
  NewlyResolved # {} =>
    \E eventName \in EventNames, payload \in Payloads :
      /\ NewlyResolved = { entry \in Elements(waiters) :
                             /\ promises[entry].eventName = eventName
                             /\ (promises[entry].predicate.kind = "function"
                                   => promises[entry].predicate.requestID = payload.responseID) }
      /\ \A entry \in NewlyResolved : promises'[entry].value = payload

\* A waiter leaves the list only resolved or timed out, and the waiters
\* that stay keep their order.
OthersStayRegistered ==
  /\ \A entry \in Elements(waiters) :
       promises'[entry].state = "pending" => entry \in Elements(waiters')
  /\ SelectSeq(waiters, LAMBDA waiter : promises'[waiter].state = "pending")
       = SelectSeq(waiters', LAMBDA waiter : waiter \in Elements(waiters))

\* C39: every waiter is settled once at most, resolved by an event or
\* rejected by its timeout and never both; an event resolves only the
\* waiters of its name whose predicate accepts the payload, so that a
\* request never gets the response of another; resolved and timed-out
\* waiters are off the list and the waiters that do not match stay on it.
C39_WaitersSettledOnce ==
  /\ [](SettledAtMostOnce /\ OnlyPendingRegistered /\ OwnResponse)
  /\ [][ResolvedByTheirEvent /\ OthersStayRegistered]_bridgeVars

\* Two requests wait for 'inspectedElement': the response of the second
\* resolved the second, the first timed out, and a waiter of another event
\* is still registered.
C39_Witness ==
  /\ Len(promises) = 3
  /\ promises[1].eventName = "inspectedElement" /\ promises[1].predicate = ForRequest(1)
  /\ promises[2].eventName = "inspectedElement" /\ promises[2].predicate = ForRequest(2)
  /\ promises[3].eventName = "profilingData"
  /\ promises[1].state = "rejected"
  /\ promises[2].state = "resolved" /\ promises[2].value.responseID = 2
  /\ waiters = <<3>>

\* =================================================================
\* The parsed-source metadata caches (setWithLruLimit)
\* =================================================================
MAX_CACHE_ENTRIES == 50

\* The calls made on the cache, and those of them that name a key the
\* cache holds.
MaxInserts == 53
MaxRefreshes == 1

\* map.delete(key)
MapDelete(map, key) == SelectSeq(map, LAMBDA entry : entry[1] # key)

\* A cache that keeps the place of a key it is given again.
setKeepingPlace(map, key, value, maxEntries) ==
  LET set == MapSet(map, key, value)
  IN  IF Len(set) > maxEntries THEN MapDelete(set, Head(set)[1]) ELSE set

\* setWithLruLimit (lines 18-29): the key goes to the end of the map, and
\* the first key of a map that has grown over maxEntries is deleted.
setWithLruLimit(map, key, value, maxEntries) ==
  LET removed == IF MapHas(map, key) THEN MapDelete(map, key) ELSE map
      set == MapSet(removed, key, value)
  IN  IF Len(set) > maxEntries THEN MapDelete(set, Head(set)[1]) ELSE set

CacheInit ==
  /\ ReportIdle
  /\ FlameIdle
  /\ SummaryIdle
  /\ commitTree = [nodes |-> EmptyNodes, rootID |-> 0]
  /\ warningSet = {}
  /\ commitIndex = 0
  /\ pc = "analyse"
  /\ operations = <<>>
  /\ final = TRUE
  /\ i = 0
  /\ stringTable = <<>>
  /\ opCount = 0
  /\ applied = <<>>
  /\ withRecord = {}
  /\ unknownSeen = <<>>

exceptCache ==
  <<vars, flameVars, summaryVars, hotspotVars, cadenceVars, durationVars, compareVars,
    analysisVars, recorderVars, poolVars, bridgeVars>>

\* The calls that named a key the cache held.
Refreshes == Len(inserted) - Cardinality(Elements(inserted))

\* The source URLs of the calls: the next URL never seen, and the oldest
\* and the newest key of the cache.
NextKeys ==
  {Cardinality(Elements(inserted)) + 1}
    \cup (IF cache # <<>> /\ Refreshes < MaxRefreshes
          THEN {cache[1][1], cache[Len(cache)][1]} ELSE {})

\* A call of setWithLruLimit on the cache (lines 87 and 197) with the
\* metadata parsed for the URL.
Insert ==
  /\ Len(inserted) < MaxInserts
  /\ \E key \in NextKeys :
       /\ cache' = setWithLruLimit(cache, key, Len(inserted) + 1, MAX_CACHE_ENTRIES)
       /\ inserted' = Append(inserted, key)
  /\ UNCHANGED exceptCache

CacheNext == Insert

CacheSpec == CacheInit /\ [][CacheNext]_cacheVars

\* ------------------------------------------------------------ properties
CacheKeys == Elements(MapKeys(cache))

\* The call that last inserted or refreshed the key.
LastInsert(key) ==
  CHOOSE n \in 1..Len(inserted) :
    inserted[n] = key /\ \A later \in (n + 1)..Len(inserted) : inserted[later] # key

\* The key of the cache inserted or refreshed the longest ago.
LeastRecent ==
  CHOOSE key \in CacheKeys : \A other \in CacheKeys : LastInsert(key) <= LastInsert(other)

\* The key of the call that makes the step.
InsertedKey == inserted'[Len(inserted')]

\* C40: after any calls the cache holds 50 entries at most and the key of
\* the last call; a call with a key the cache holds does not grow it; and a
\* call that takes the cache over the bound evicts the key inserted or
\* refreshed least recently and no other.
C40_LruCache ==
  /\ [](/\ Len(cache) <= MAX_CACHE_ENTRIES
        /\ NoRepetition(MapKeys(cache))
        /\ (inserted # <<>> => inserted[Len(inserted)] \in CacheKeys))
  /\ [][/\ InsertedKey \in CacheKeys
          => Elements(MapKeys(cache')) = CacheKeys
        /\ (InsertedKey \notin CacheKeys /\ Len(cache) < MAX_CACHE_ENTRIES)
          => Elements(MapKeys(cache')) = CacheKeys \cup {InsertedKey}
        /\ (InsertedKey \notin CacheKeys /\ Len(cache) = MAX_CACHE_ENTRIES)
          => Elements(MapKeys(cache')) = (CacheKeys \ {LeastRecent}) \cup {InsertedKey}
     ]_cacheVars

\* The first URL was given again before the cache was full; the call with
\* the 51st URL has evicted the second URL and the first is still held.
C40_Witness ==
  /\ Len(cache) = MAX_CACHE_ENTRIES
  /\ Cardinality(Elements(inserted)) = MAX_CACHE_ENTRIES + 1
  /\ inserted[Len(inserted)] = MAX_CACHE_ENTRIES + 1
  /\ Refreshes = 1
  /\ 1 \in CacheKeys
  /\ 2 \notin CacheKeys

====
